---- MODULE Spec2Model ----
(***************************************************************************)
(* Core+Core challenge sampling and deterministic validation               *)
(* (src/src/coreplus.rs).                                                  *)
(*                                                                         *)
(* A Rust `String`/`&str` is modelled as a sequence of Unicode scalar      *)
(* values.  The code indexes strings by UTF-8 byte offset, but every       *)
(* offset it computes is the end of a matched substring, hence a character *)
(* boundary, and two offsets are equal as byte offsets iff they are equal  *)
(* as character offsets; offsets below are character offsets (0-based).    *)
(* An f32 score only ever holds integers in -21..100 and is an Int here.   *)
(***************************************************************************)
EXTENDS Integers, Sequences, FiniteSets, TLC

VARIABLES
  pc,          \* where the caller is: "attempting" (inside the sampler's loop),
               \* "succeeded" / "exhausted" (the sampler returned Ok / Err),
               \* "stored" (it holds a spec that was handed to it),
               \* "scored" (evaluate returned), "validated" (validate returned),
               \* "called" (it called the sampler, which has not parsed the difficulty yet),
               \* "matching" (it runs the structural matcher on a pattern and a text),
               \* "rendered" (it built the reference answer of its spec),
               \* "serving" (it is the server, whose tasks call into AppState)
  difficulty,  \* argument `difficulty` of sample_core_plus_core_spec
  max_tries,   \* argument `max_tries`
  frame,       \* the sampler's locals while it runs (dropped, NoFrame, when it returns):
               \* target_level_max, the number of iterations started so far, and
               \* which `continue` ended the latest one
  spec,        \* the CorePlusSpec the sampler returned (NoSpec before that)
  eval_out,    \* the call of evaluate_core_plus_core_answer: its answer and result
  valid_out,   \* the call of validate_generated_item: its item and result
  scan,        \* the call of simple_regex_like_match in progress: its arguments and locals,
               \* and in `found` the offsets at which the chunks were matched so far
               \* (NoScan outside such a call)
  reference_answer_zh, \* the reference answer rendered from spec (NoCall before that)
  by_id,        \* AppState.by_id: id -> challenge, a function on the ids it holds
  by_diff,      \* AppState.by_diff: difficulty -> list of ids, on the keys it holds
  last_by_diff, \* AppState.last_by_diff: difficulty -> the id served last
  locks,        \* the three RwLocks: who holds each for writing, who for reading
  openai,       \* whether AppState.openai is Some
  tasks         \* the concurrent tasks calling into AppState: the call of each, where
                \* it is in it, and its locals

core_vars == <<pc, difficulty, max_tries, frame, spec, eval_out, valid_out, scan, reference_answer_zh>>

store_vars == <<by_id, by_diff, last_by_diff, locks, openai, tasks>>

vars == <<core_vars, store_vars>>

\* no AppState is in use
StoreIdle ==
  /\ by_id = <<>>
  /\ by_diff = <<>>
  /\ last_by_diff = <<>>
  /\ locks = <<>>
  /\ openai = FALSE
  /\ tasks = <<>>

----------------------------------------------------------------------------
(* Bounds of the model. *)

\* the small retry budgets a caller passes are 0..MaxTries
MaxTries == 2

----------------------------------------------------------------------------
(* std string primitives the module uses, on sequences of scalar values. *)

\* char::is_whitespace: the Unicode White_Space property
IsWhitespace(c) ==
  c \in ({9, 10, 11, 12, 13, 32, 133, 160, 5760, 8232, 8233, 8239, 8287, 12288} \cup (8192..8202))

RECURSIVE trim_start(_)
trim_start(s) ==
  IF s # <<>> /\ IsWhitespace(Head(s)) THEN trim_start(Tail(s)) ELSE s

RECURSIVE trim_end(_)
trim_end(s) ==
  IF s # <<>> /\ IsWhitespace(s[Len(s)]) THEN trim_end(SubSeq(s, 1, Len(s) - 1)) ELSE s

\* str::trim
trim(s) == trim_end(trim_start(s))

\* str::trim_end_matches with a predicate on chars, given as the set it accepts:
\* removes EVERY trailing char of the set
RECURSIVE trim_end_matches(_, _)
trim_end_matches(s, chars) ==
  IF s # <<>> /\ s[Len(s)] \in chars THEN trim_end_matches(SubSeq(s, 1, Len(s) - 1), chars) ELSE s

\* str::starts_with / str::ends_with
starts_with(s, prefix) ==
  Len(prefix) <= Len(s) /\ SubSeq(s, 1, Len(prefix)) = prefix

ends_with(s, suffix) ==
  Len(suffix) <= Len(s) /\ SubSeq(s, Len(s) - Len(suffix) + 1, Len(s)) = suffix

\* str::contains
contains(text, sub) ==
  \E i \in 0..(Len(text) - Len(sub)) : SubSeq(text, i + 1, i + Len(sub)) = sub

\* Option<usize> of str::find: None is NotFound, Some(i) is the 0-based offset i
NotFound == -1

RECURSIVE find_from(_, _, _)
find_from(text, sub, i) ==
  IF i + Len(sub) > Len(text) THEN NotFound
  ELSE IF SubSeq(text, i + 1, i + Len(sub)) = sub THEN i
  ELSE find_from(text, sub, i + 1)

\* str::find: offset of the first occurrence
find(text, sub) == find_from(text, sub, 0)

\* the tail text[from..]
slice_from(text, from) == SubSeq(text, from + 1, Len(text))

\* str::replace: every non-overlapping occurrence, left to right (from is non-empty)
RECURSIVE replace(_, _, _)
replace(s, from, to) ==
  LET i == find(s, from) IN
    IF i = NotFound THEN s
    ELSE SubSeq(s, 1, i) \o to \o replace(slice_from(s, i + Len(from)), from, to)

\* str::split on a non-empty separator: the pieces, empty ones included
RECURSIVE split(_, _)
split(s, sep) ==
  LET i == find(s, sep) IN
    IF i = NotFound THEN <<s>>
    ELSE <<SubSeq(s, 1, i)>> \o split(slice_from(s, i + Len(sep)), sep)

\* str::to_lowercase on the ASCII letters (the difficulty strings are ASCII)
to_lowercase(s) ==
  [i \in 1..Len(s) |-> IF s[i] \in 65..90 THEN s[i] + 32 ELSE s[i]]

\* value of a sequence of ASCII digits
RECURSIVE digits_value(_)
digits_value(ds) ==
  IF ds = <<>> THEN 0 ELSE 10 * digits_value(SubSeq(ds, 1, Len(ds) - 1)) + (ds[Len(ds)] - 48)

\* Option<u8> of str::parse::<u8>: an optional '+', then one or more ASCII digits,
\* value at most u8::MAX; anything else is None (ParseError)
ParseError == -1

parse_u8(v) ==
  LET ds == IF v # <<>> /\ Head(v) = 43 THEN Tail(v) ELSE v IN
    IF ds = <<>> \/ (\E i \in 1..Len(ds) : ds[i] \notin 48..57) THEN ParseError
    ELSE IF digits_value(ds) > 255 THEN ParseError
    ELSE digits_value(ds)

----------------------------------------------------------------------------
(* Constants of coreplus.rs. *)

VERSION == "core_plus_core.zh.v2"
LANGUAGE == "zh"
MODE == "core_plus_core"

REL_ADDITION == "ADDITION"
REL_CHOICE == "CHOICE"
REL_CONTRAST == "CONTRAST"
REL_CAUSE == "CAUSE"
REL_RESULT == "RESULT"
REL_CONDITION == "CONDITION"
REL_TIME == "TIME"
REL_PURPOSE == "PURPOSE"

\* the ideographic full stop, U+3002
FullStop == 12290

\* '。' '.' '!' '！' '?' '？': the sentence-terminal marks both trimming closures accept
TerminalPunct == {12290, 46, 33, 65281, 63, 65311}

\* '!' '！' '?' '？': the marks split_two_sentences rewrites to '。'
ExclaimQuestion == {33, 65281, 63, 65311}

----------------------------------------------------------------------------
(* The static catalogs. *)

\* PATTERNS_CAUSE: the pattern table of one relation (strings are sequences of Unicode scalar values).
PATTERNS_CAUSE ==
  <<
    \* 因为{A}，所以{B}   strong 因为 所以   banned 因为 所以   ^因为.+，所以.+$
    [id |-> "zh_pat__cause__yinwei_suoyi__pair__l1", level |-> 1, kind |-> "PAIR",
     tpl |-> <<22240, 20026, 123, 65, 125, 65292, 25152, 20197, 123, 66, 125>>,
     markers_zh |-> <<22240, 20026, 8230, 25152, 20197, 8230>>,
     strong_markers |-> <<<<22240, 20026>>, <<25152, 20197>>>>, weak_markers |-> <<>>,
     seed_banned |-> <<<<22240, 20026>>, <<25152, 20197>>>>,
     check_regex |-> <<94, 22240, 20026, 46, 43, 65292, 25152, 20197, 46, 43, 36>>],
    \* 由于{A}，因此{B}   strong 由于 因此   banned 由于 因此   ^由于.+，因此.+$
    [id |-> "zh_pat__cause__youyu_yinci__pair__l2", level |-> 2, kind |-> "PAIR",
     tpl |-> <<30001, 20110, 123, 65, 125, 65292, 22240, 27492, 123, 66, 125>>,
     markers_zh |-> <<30001, 20110, 8230, 22240, 27492, 8230>>,
     strong_markers |-> <<<<30001, 20110>>, <<22240, 27492>>>>, weak_markers |-> <<>>,
     seed_banned |-> <<<<30001, 20110>>, <<22240, 27492>>>>,
     check_regex |-> <<94, 30001, 20110, 46, 43, 65292, 22240, 27492, 46, 43, 36>>],
    \* 既然{A}，就{B}   strong 既然   banned 既然   ^既然.+，就.+$
    [id |-> "zh_pat__cause__jiran_jiu__pair__l2", level |-> 2, kind |-> "PAIR",
     tpl |-> <<26082, 28982, 123, 65, 125, 65292, 23601, 123, 66, 125>>,
     markers_zh |-> <<26082, 28982, 8230, 23601, 8230>>,
     strong_markers |-> <<<<26082, 28982>>>>, weak_markers |-> <<<<23601>>>>,
     seed_banned |-> <<<<26082, 28982>>>>,
     check_regex |-> <<94, 26082, 28982, 46, 43, 65292, 23601, 46, 43, 36>>],
    \* 因为{A}，{B}   strong 因为   banned 因为   ^因为.+，.+$
    [id |-> "zh_pat__cause__yinwei_only__single__l1", level |-> 1, kind |-> "SINGLE",
     tpl |-> <<22240, 20026, 123, 65, 125, 65292, 123, 66, 125>>,
     markers_zh |-> <<22240, 20026, 8230>>,
     strong_markers |-> <<<<22240, 20026>>>>, weak_markers |-> <<>>,
     seed_banned |-> <<<<22240, 20026>>>>,
     check_regex |-> <<94, 22240, 20026, 46, 43, 65292, 46, 43, 36>>],
    \* 由于{A}，{B}   strong 由于   banned 由于   ^由于.+，.+$
    [id |-> "zh_pat__cause__youyu_only__single__l2", level |-> 2, kind |-> "SINGLE",
     tpl |-> <<30001, 20110, 123, 65, 125, 65292, 123, 66, 125>>,
     markers_zh |-> <<30001, 20110, 8230>>,
     strong_markers |-> <<<<30001, 20110>>>>, weak_markers |-> <<>>,
     seed_banned |-> <<<<30001, 20110>>>>,
     check_regex |-> <<94, 30001, 20110, 46, 43, 65292, 46, 43, 36>>],
    \* 正因为{A}，{B}   strong 正因为   banned 正因为   ^正因为.+，.+$
    [id |-> "zh_pat__cause__zhengyinwei__single__l3", level |-> 3, kind |-> "SINGLE",
     tpl |-> <<27491, 22240, 20026, 123, 65, 125, 65292, 123, 66, 125>>,
     markers_zh |-> <<27491, 22240, 20026, 8230>>,
     strong_markers |-> <<<<27491, 22240, 20026>>>>, weak_markers |-> <<>>,
     seed_banned |-> <<<<27491, 22240, 20026>>>>,
     check_regex |-> <<94, 27491, 22240, 20026, 46, 43, 65292, 46, 43, 36>>],
    \* {B}，是因为{A}   strong 是因为   banned 是因为   ^.+，是因为.+$
    [id |-> "zh_pat__cause__b_shiyinwei_a__single__l2", level |-> 2, kind |-> "SINGLE",
     tpl |-> <<123, 66, 125, 65292, 26159, 22240, 20026, 123, 65, 125>>,
     markers_zh |-> <<8230, 26159, 22240, 20026, 8230>>,
     strong_markers |-> <<<<26159, 22240, 20026>>>>, weak_markers |-> <<>>,
     seed_banned |-> <<<<26159, 22240, 20026>>>>,
     check_regex |-> <<94, 46, 43, 65292, 26159, 22240, 20026, 46, 43, 36>>],
    \* 之所以{B}，是因为{A}   strong 之所以 是因为   banned 之所以 是因为   ^之所以.+，是因为.+$
    [id |-> "zh_pat__cause__zhisuoyi_shiyinwei__pair__l2", level |-> 2, kind |-> "PAIR",
     tpl |-> <<20043, 25152, 20197, 123, 66, 125, 65292, 26159, 22240, 20026, 123, 65, 125>>,
     markers_zh |-> <<20043, 25152, 20197, 8230, 26159, 22240, 20026, 8230>>,
     strong_markers |-> <<<<20043, 25152, 20197>>, <<26159, 22240, 20026>>>>, weak_markers |-> <<>>,
     seed_banned |-> <<<<20043, 25152, 20197>>, <<26159, 22240, 20026>>>>,
     check_regex |-> <<94, 20043, 25152, 20197, 46, 43, 65292, 26159, 22240, 20026, 46, 43, 36>>],
    \* {B}的原因在于{A}   strong 原因在于   banned 原因在于   ^.+的原因在于.+$
    [id |-> "zh_pat__cause__yuanyin_zaiyu__single__l3", level |-> 3, kind |-> "SINGLE",
     tpl |-> <<123, 66, 125, 30340, 21407, 22240, 22312, 20110, 123, 65, 125>>,
     markers_zh |-> <<8230, 30340, 21407, 22240, 22312, 20110, 8230>>,
     strong_markers |-> <<<<21407, 22240, 22312, 20110>>>>, weak_markers |-> <<>>,
     seed_banned |-> <<<<21407, 22240, 22312, 20110>>>>,
     check_regex |-> <<94, 46, 43, 30340, 21407, 22240, 22312, 20110, 46, 43, 36>>],
    \* {A}，导致{B}   strong 导致   banned 导致   ^.+，导致.+$
    [id |-> "zh_pat__cause__daozhi__single__l2", level |-> 2, kind |-> "SINGLE",
     tpl |-> <<123, 65, 125, 65292, 23548, 33268, 123, 66, 125>>,
     markers_zh |-> <<23548, 33268, 8230>>,
     strong_markers |-> <<<<23548, 33268>>>>, weak_markers |-> <<>>,
     seed_banned |-> <<<<23548, 33268>>>>,
     check_regex |-> <<94, 46, 43, 65292, 23548, 33268, 46, 43, 36>>],
    \* {A}，使得{B}   strong 使得   banned 使得   ^.+，使得.+$
    [id |-> "zh_pat__cause__shide__single__l2", level |-> 2, kind |-> "SINGLE",
     tpl |-> <<123, 65, 125, 65292, 20351, 24471, 123, 66, 125>>,
     markers_zh |-> <<20351, 24471, 8230>>,
     strong_markers |-> <<<<20351, 24471>>>>, weak_markers |-> <<>>,
     seed_banned |-> <<<<20351, 24471>>>>,
     check_regex |-> <<94, 46, 43, 65292, 20351, 24471, 46, 43, 36>>]
  >>

\* PATTERNS_RESULT: the pattern table of one relation (strings are sequences of Unicode scalar values).
PATTERNS_RESULT ==
  <<
    \* {A}，所以{B}   strong 所以   banned 所以   ^.+，所以.+$
    [id |-> "zh_pat__result__suoyi__single__l1", level |-> 1, kind |-> "SINGLE",
     tpl |-> <<123, 65, 125, 65292, 25152, 20197, 123, 66, 125>>,
     markers_zh |-> <<25152, 20197, 8230>>,
     strong_markers |-> <<<<25152, 20197>>>>, weak_markers |-> <<>>,
     seed_banned |-> <<<<25152, 20197>>>>,
     check_regex |-> <<94, 46, 43, 65292, 25152, 20197, 46, 43, 36>>],
    \* {A}，因此{B}   strong 因此   banned 因此   ^.+，因此.+$
    [id |-> "zh_pat__result__yinci__single__l1", level |-> 1, kind |-> "SINGLE",
     tpl |-> <<123, 65, 125, 65292, 22240, 27492, 123, 66, 125>>,
     markers_zh |-> <<22240, 27492, 8230>>,
     strong_markers |-> <<<<22240, 27492>>>>, weak_markers |-> <<>>,
     seed_banned |-> <<<<22240, 27492>>>>,
     check_regex |-> <<94, 46, 43, 65292, 22240, 27492, 46, 43, 36>>],
    \* {A}，因而{B}   strong 因而   banned 因而   ^.+，因而.+$
    [id |-> "zh_pat__result__yiner__single__l2", level |-> 2, kind |-> "SINGLE",
     tpl |-> <<123, 65, 125, 65292, 22240, 32780, 123, 66, 125>>,
     markers_zh |-> <<22240, 32780, 8230>>,
     strong_markers |-> <<<<22240, 32780>>>>, weak_markers |-> <<>>,
     seed_banned |-> <<<<22240, 32780>>>>,
     check_regex |-> <<94, 46, 43, 65292, 22240, 32780, 46, 43, 36>>],
    \* {A}，于是{B}   strong 于是   banned 于是   ^.+，于是.+$
    [id |-> "zh_pat__result__yushi__single__l1", level |-> 1, kind |-> "SINGLE",
     tpl |-> <<123, 65, 125, 65292, 20110, 26159, 123, 66, 125>>,
     markers_zh |-> <<20110, 26159, 8230>>,
     strong_markers |-> <<<<20110, 26159>>>>, weak_markers |-> <<>>,
     seed_banned |-> <<<<20110, 26159>>>>,
     check_regex |-> <<94, 46, 43, 65292, 20110, 26159, 46, 43, 36>>],
    \* {A}，结果{B}   strong 结果   banned 结果   ^.+，结果.+$
    [id |-> "zh_pat__result__jieguo__single__l1", level |-> 1, kind |-> "SINGLE",
     tpl |-> <<123, 65, 125, 65292, 32467, 26524, 123, 66, 125>>,
     markers_zh |-> <<32467, 26524, 8230>>,
     strong_markers |-> <<<<32467, 26524>>>>, weak_markers |-> <<>>,
     seed_banned |-> <<<<32467, 26524>>>>,
     check_regex |-> <<94, 46, 43, 65292, 32467, 26524, 46, 43, 36>>],
    \* {A}，结果是{B}   strong 结果是   banned 结果是   ^.+，结果是.+$
    [id |-> "zh_pat__result__jieguo_shi__single__l2", level |-> 2, kind |-> "SINGLE",
     tpl |-> <<123, 65, 125, 65292, 32467, 26524, 26159, 123, 66, 125>>,
     markers_zh |-> <<32467, 26524, 26159, 8230>>,
     strong_markers |-> <<<<32467, 26524, 26159>>>>, weak_markers |-> <<>>,
     seed_banned |-> <<<<32467, 26524, 26159>>>>,
     check_regex |-> <<94, 46, 43, 65292, 32467, 26524, 26159, 46, 43, 36>>],
    \* {A}，从而{B}   strong 从而   banned 从而   ^.+，从而.+$
    [id |-> "zh_pat__result__conger__single__l3", level |-> 3, kind |-> "SINGLE",
     tpl |-> <<123, 65, 125, 65292, 20174, 32780, 123, 66, 125>>,
     markers_zh |-> <<20174, 32780, 8230>>,
     strong_markers |-> <<<<20174, 32780>>>>, weak_markers |-> <<>>,
     seed_banned |-> <<<<20174, 32780>>>>,
     check_regex |-> <<94, 46, 43, 65292, 20174, 32780, 46, 43, 36>>],
    \* {A}，进而{B}   strong 进而   banned 进而   ^.+，进而.+$
    [id |-> "zh_pat__result__jin_er__single__l3", level |-> 3, kind |-> "SINGLE",
     tpl |-> <<123, 65, 125, 65292, 36827, 32780, 123, 66, 125>>,
     markers_zh |-> <<36827, 32780, 8230>>,
     strong_markers |-> <<<<36827, 32780>>>>, weak_markers |-> <<>>,
     seed_banned |-> <<<<36827, 32780>>>>,
     check_regex |-> <<94, 46, 43, 65292, 36827, 32780, 46, 43, 36>>],
    \* {A}，以至于{B}   strong 以至于   banned 以至于   ^.+，以至于.+$
    [id |-> "zh_pat__result__yizhiyu__single__l3", level |-> 3, kind |-> "SINGLE",
     tpl |-> <<123, 65, 125, 65292, 20197, 33267, 20110, 123, 66, 125>>,
     markers_zh |-> <<20197, 33267, 20110, 8230>>,
     strong_markers |-> <<<<20197, 33267, 20110>>>>, weak_markers |-> <<>>,
     seed_banned |-> <<<<20197, 33267, 20110>>>>,
     check_regex |-> <<94, 46, 43, 65292, 20197, 33267, 20110, 46, 43, 36>>]
  >>

\* PATTERNS_CONDITION: the pattern table of one relation (strings are sequences of Unicode scalar values).
PATTERNS_CONDITION ==
  <<
    \* 如果{A}，就{B}   strong 如果   banned 如果   ^如果.+，就.+$
    [id |-> "zh_pat__cond__ruguo_jiu__pair__l1", level |-> 1, kind |-> "PAIR",
     tpl |-> <<22914, 26524, 123, 65, 125, 65292, 23601, 123, 66, 125>>,
     markers_zh |-> <<22914, 26524, 8230, 23601, 8230>>,
     strong_markers |-> <<<<22914, 26524>>>>, weak_markers |-> <<<<23601>>>>,
     seed_banned |-> <<<<22914, 26524>>>>,
     check_regex |-> <<94, 22914, 26524, 46, 43, 65292, 23601, 46, 43, 36>>],
    \* 要是{A}，就{B}   strong 要是   banned 要是   ^要是.+，就.+$
    [id |-> "zh_pat__cond__yaoshi_jiu__pair__l1", level |-> 1, kind |-> "PAIR",
     tpl |-> <<35201, 26159, 123, 65, 125, 65292, 23601, 123, 66, 125>>,
     markers_zh |-> <<35201, 26159, 8230, 23601, 8230>>,
     strong_markers |-> <<<<35201, 26159>>>>, weak_markers |-> <<<<23601>>>>,
     seed_banned |-> <<<<35201, 26159>>>>,
     check_regex |-> <<94, 35201, 26159, 46, 43, 65292, 23601, 46, 43, 36>>],
    \* 假如{A}，就{B}   strong 假如   banned 假如   ^假如.+，就.+$
    [id |-> "zh_pat__cond__jiaru_jiu__pair__l2", level |-> 2, kind |-> "PAIR",
     tpl |-> <<20551, 22914, 123, 65, 125, 65292, 23601, 123, 66, 125>>,
     markers_zh |-> <<20551, 22914, 8230, 23601, 8230>>,
     strong_markers |-> <<<<20551, 22914>>>>, weak_markers |-> <<<<23601>>>>,
     seed_banned |-> <<<<20551, 22914>>>>,
     check_regex |-> <<94, 20551, 22914, 46, 43, 65292, 23601, 46, 43, 36>>],
    \* 只要{A}，就{B}   strong 只要   banned 只要   ^只要.+，就.+$
    [id |-> "zh_pat__cond__zhiyao_jiu__pair__l1", level |-> 1, kind |-> "PAIR",
     tpl |-> <<21482, 35201, 123, 65, 125, 65292, 23601, 123, 66, 125>>,
     markers_zh |-> <<21482, 35201, 8230, 23601, 8230>>,
     strong_markers |-> <<<<21482, 35201>>>>, weak_markers |-> <<<<23601>>>>,
     seed_banned |-> <<<<21482, 35201>>>>,
     check_regex |-> <<94, 21482, 35201, 46, 43, 65292, 23601, 46, 43, 36>>],
    \* 只有{A}，才{B}   strong 只有   banned 只有   ^只有.+，才.+$
    [id |-> "zh_pat__cond__zhiyou_cai__pair__l2", level |-> 2, kind |-> "PAIR",
     tpl |-> <<21482, 26377, 123, 65, 125, 65292, 25165, 123, 66, 125>>,
     markers_zh |-> <<21482, 26377, 8230, 25165, 8230>>,
     strong_markers |-> <<<<21482, 26377>>>>, weak_markers |-> <<<<25165>>>>,
     seed_banned |-> <<<<21482, 26377>>>>,
     check_regex |-> <<94, 21482, 26377, 46, 43, 65292, 25165, 46, 43, 36>>],
    \* 除非{A}，否则{B}   strong 除非 否则   banned 除非 否则   ^除非.+，否则.+$
    [id |-> "zh_pat__cond__chufei_fouze__pair__l2", level |-> 2, kind |-> "PAIR",
     tpl |-> <<38500, 38750, 123, 65, 125, 65292, 21542, 21017, 123, 66, 125>>,
     markers_zh |-> <<38500, 38750, 8230, 21542, 21017, 8230>>,
     strong_markers |-> <<<<38500, 38750>>, <<21542, 21017>>>>, weak_markers |-> <<>>,
     seed_banned |-> <<<<38500, 38750>>, <<21542, 21017>>>>,
     check_regex |-> <<94, 38500, 38750, 46, 43, 65292, 21542, 21017, 46, 43, 36>>],
    \* {A}的话，{B}   strong 的话   banned 的话   ^.+的话，.+$
    [id |-> "zh_pat__cond__a_dehua_b__single__l2", level |-> 2, kind |-> "SINGLE",
     tpl |-> <<123, 65, 125, 30340, 35805, 65292, 123, 66, 125>>,
     markers_zh |-> <<8230, 30340, 35805, 8230>>,
     strong_markers |-> <<<<30340, 35805>>>>, weak_markers |-> <<>>,
     seed_banned |-> <<<<30340, 35805>>>>,
     check_regex |-> <<94, 46, 43, 30340, 35805, 65292, 46, 43, 36>>],
    \* {A}，否则{B}   strong 否则   banned 否则   ^.+，否则.+$
    [id |-> "zh_pat__cond__fouze__single__l2", level |-> 2, kind |-> "SINGLE",
     tpl |-> <<123, 65, 125, 65292, 21542, 21017, 123, 66, 125>>,
     markers_zh |-> <<21542, 21017, 8230>>,
     strong_markers |-> <<<<21542, 21017>>>>, weak_markers |-> <<>>,
     seed_banned |-> <<<<21542, 21017>>>>,
     check_regex |-> <<94, 46, 43, 65292, 21542, 21017, 46, 43, 36>>],
    \* 在{A}的情况下，{B}   strong 情况下   banned 情况下   ^在.+的情况下，.+$
    [id |-> "zh_pat__cond__qingkuangxia__single__l3", level |-> 3, kind |-> "SINGLE",
     tpl |-> <<22312, 123, 65, 125, 30340, 24773, 20917, 19979, 65292, 123, 66, 125>>,
     markers_zh |-> <<22312, 8230, 30340, 24773, 20917, 19979, 8230>>,
     strong_markers |-> <<<<24773, 20917, 19979>>>>, weak_markers |-> <<>>,
     seed_banned |-> <<<<24773, 20917, 19979>>>>,
     check_regex |-> <<94, 22312, 46, 43, 30340, 24773, 20917, 19979, 65292, 46, 43, 36>>]
  >>

\* PATTERNS_CONTRAST: the pattern table of one relation (strings are sequences of Unicode scalar values).
PATTERNS_CONTRAST ==
  <<
    \* 虽然{A}，但是{B}   strong 虽然 但是   banned 虽然 但是   ^虽然.+，但是.+$
    [id |-> "zh_pat__contrast__suiran_danshi__pair__l1", level |-> 1, kind |-> "PAIR",
     tpl |-> <<34429, 28982, 123, 65, 125, 65292, 20294, 26159, 123, 66, 125>>,
     markers_zh |-> <<34429, 28982, 8230, 20294, 26159, 8230>>,
     strong_markers |-> <<<<34429, 28982>>, <<20294, 26159>>>>, weak_markers |-> <<>>,
     seed_banned |-> <<<<34429, 28982>>, <<20294, 26159>>>>,
     check_regex |-> <<94, 34429, 28982, 46, 43, 65292, 20294, 26159, 46, 43, 36>>],
    \* 虽然{A}，但{B}   strong 虽然   banned 虽然   ^虽然.+，但.+$
    [id |-> "zh_pat__contrast__suiran_dan__pair__l2", level |-> 2, kind |-> "PAIR",
     tpl |-> <<34429, 28982, 123, 65, 125, 65292, 20294, 123, 66, 125>>,
     markers_zh |-> <<34429, 28982, 8230, 20294, 8230>>,
     strong_markers |-> <<<<34429, 28982>>>>, weak_markers |-> <<<<20294>>>>,
     seed_banned |-> <<<<34429, 28982>>>>,
     check_regex |-> <<94, 34429, 28982, 46, 43, 65292, 20294, 46, 43, 36>>],
    \* 尽管{A}，但{B}   strong 尽管   banned 尽管   ^尽管.+，但.+$
    [id |-> "zh_pat__contrast__jinguan_dan__pair__l2", level |-> 2, kind |-> "PAIR",
     tpl |-> <<23613, 31649, 123, 65, 125, 65292, 20294, 123, 66, 125>>,
     markers_zh |-> <<23613, 31649, 8230, 20294, 8230>>,
     strong_markers |-> <<<<23613, 31649>>>>, weak_markers |-> <<<<20294>>>>,
     seed_banned |-> <<<<23613, 31649>>>>,
     check_regex |-> <<94, 23613, 31649, 46, 43, 65292, 20294, 46, 43, 36>>],
    \* 尽管{A}，仍然{B}   strong 尽管 仍然   banned 尽管 仍然   ^尽管.+，仍然.+$
    [id |-> "zh_pat__contrast__jinguan_rengran__pair__l3", level |-> 3, kind |-> "PAIR",
     tpl |-> <<23613, 31649, 123, 65, 125, 65292, 20173, 28982, 123, 66, 125>>,
     markers_zh |-> <<23613, 31649, 8230, 20173, 28982, 8230>>,
     strong_markers |-> <<<<23613, 31649>>, <<20173, 28982>>>>, weak_markers |-> <<>>,
     seed_banned |-> <<<<23613, 31649>>, <<20173, 28982>>>>,
     check_regex |-> <<94, 23613, 31649, 46, 43, 65292, 20173, 28982, 46, 43, 36>>],
    \* {A}，不过{B}   strong 不过   banned 不过   ^.+，不过.+$
    [id |-> "zh_pat__contrast__a_buguo_b__single__l1", level |-> 1, kind |-> "SINGLE",
     tpl |-> <<123, 65, 125, 65292, 19981, 36807, 123, 66, 125>>,
     markers_zh |-> <<19981, 36807, 8230>>,
     strong_markers |-> <<<<19981, 36807>>>>, weak_markers |-> <<>>,
     seed_banned |-> <<<<19981, 36807>>>>,
     check_regex |-> <<94, 46, 43, 65292, 19981, 36807, 46, 43, 36>>],
    \* {A}，可是{B}   strong 可是   banned 可是   ^.+，可是.+$
    [id |-> "zh_pat__contrast__a_keshi_b__single__l1", level |-> 1, kind |-> "SINGLE",
     tpl |-> <<123, 65, 125, 65292, 21487, 26159, 123, 66, 125>>,
     markers_zh |-> <<21487, 26159, 8230>>,
     strong_markers |-> <<<<21487, 26159>>>>, weak_markers |-> <<>>,
     seed_banned |-> <<<<21487, 26159>>>>,
     check_regex |-> <<94, 46, 43, 65292, 21487, 26159, 46, 43, 36>>],
    \* {A}，然而{B}   strong 然而   banned 然而   ^.+，然而.+$
    [id |-> "zh_pat__contrast__a_ran'er_b__single__l2", level |-> 2, kind |-> "SINGLE",
     tpl |-> <<123, 65, 125, 65292, 28982, 32780, 123, 66, 125>>,
     markers_zh |-> <<28982, 32780, 8230>>,
     strong_markers |-> <<<<28982, 32780>>>>, weak_markers |-> <<>>,
     seed_banned |-> <<<<28982, 32780>>>>,
     check_regex |-> <<94, 46, 43, 65292, 28982, 32780, 46, 43, 36>>],
    \* {A}，却{B}   strong 却   banned 却   ^.+，却.+$
    [id |-> "zh_pat__contrast__a_que_b__single__l2", level |-> 2, kind |-> "SINGLE",
     tpl |-> <<123, 65, 125, 65292, 21364, 123, 66, 125>>,
     markers_zh |-> <<21364, 8230>>,
     strong_markers |-> <<<<21364>>>>, weak_markers |-> <<>>,
     seed_banned |-> <<<<21364>>>>,
     check_regex |-> <<94, 46, 43, 65292, 21364, 46, 43, 36>>],
    \* {A}，反而{B}   strong 反而   banned 反而   ^.+，反而.+$
    [id |-> "zh_pat__contrast__a_faner_b__single__l3", level |-> 3, kind |-> "SINGLE",
     tpl |-> <<123, 65, 125, 65292, 21453, 32780, 123, 66, 125>>,
     markers_zh |-> <<21453, 32780, 8230>>,
     strong_markers |-> <<<<21453, 32780>>>>, weak_markers |-> <<>>,
     seed_banned |-> <<<<21453, 32780>>>>,
     check_regex |-> <<94, 46, 43, 65292, 21453, 32780, 46, 43, 36>>],
    \* 表面上{A}，其实{B}   strong 表面上 其实   banned 表面上 其实   ^表面上.+，其实.+$
    [id |-> "zh_pat__contrast__biaomianshang_qishi__pair__l3", level |-> 3, kind |-> "PAIR",
     tpl |-> <<34920, 38754, 19978, 123, 65, 125, 65292, 20854, 23454, 123, 66, 125>>,
     markers_zh |-> <<34920, 38754, 19978, 8230, 20854, 23454, 8230>>,
     strong_markers |-> <<<<34920, 38754, 19978>>, <<20854, 23454>>>>, weak_markers |-> <<>>,
     seed_banned |-> <<<<34920, 38754, 19978>>, <<20854, 23454>>>>,
     check_regex |-> <<94, 34920, 38754, 19978, 46, 43, 65292, 20854, 23454, 46, 43, 36>>],
    \* 一方面{A}，另一方面{B}   strong 一方面 另一方面   banned 一方面 另一方面   ^一方面.+，另一方面.+$
    [id |-> "zh_pat__contrast__yifangmian_lingyifangmian__pair__l3", level |-> 3, kind |-> "PAIR",
     tpl |-> <<19968, 26041, 38754, 123, 65, 125, 65292, 21478, 19968, 26041, 38754, 123, 66, 125>>,
     markers_zh |-> <<19968, 26041, 38754, 8230, 21478, 19968, 26041, 38754, 8230>>,
     strong_markers |-> <<<<19968, 26041, 38754>>, <<21478, 19968, 26041, 38754>>>>, weak_markers |-> <<>>,
     seed_banned |-> <<<<19968, 26041, 38754>>, <<21478, 19968, 26041, 38754>>>>,
     check_regex |-> <<94, 19968, 26041, 38754, 46, 43, 65292, 21478, 19968, 26041, 38754, 46, 43, 36>>]
  >>

\* PATTERNS_TIME: the pattern table of one relation (strings are sequences of Unicode scalar values).
PATTERNS_TIME ==
  <<
    \* 当{A}的时候，{B}   strong 当   banned 当   ^当.+的时候，.+$
    [id |-> "zh_pat__time__dang_shi__single__l1", level |-> 1, kind |-> "SINGLE",
     tpl |-> <<24403, 123, 65, 125, 30340, 26102, 20505, 65292, 123, 66, 125>>,
     markers_zh |-> <<24403, 8230, 30340, 26102, 20505, 8230>>,
     strong_markers |-> <<<<24403>>>>, weak_markers |-> <<>>,
     seed_banned |-> <<<<24403>>>>,
     check_regex |-> <<94, 24403, 46, 43, 30340, 26102, 20505, 65292, 46, 43, 36>>],
    \* 在{A}的时候，{B}   strong 在   banned -   ^在.+的时候，.+$
    [id |-> "zh_pat__time__zai_shi__single__l2", level |-> 2, kind |-> "SINGLE",
     tpl |-> <<22312, 123, 65, 125, 30340, 26102, 20505, 65292, 123, 66, 125>>,
     markers_zh |-> <<22312, 8230, 30340, 26102, 20505, 8230>>,
     strong_markers |-> <<<<22312>>>>, weak_markers |-> <<>>,
     seed_banned |-> <<>>,
     check_regex |-> <<94, 22312, 46, 43, 30340, 26102, 20505, 65292, 46, 43, 36>>],
    \* {A}以后，{B}   strong 以后   banned 以后   ^.+以后，.+$
    [id |-> "zh_pat__time__a_yihou_b__single__l1", level |-> 1, kind |-> "SINGLE",
     tpl |-> <<123, 65, 125, 20197, 21518, 65292, 123, 66, 125>>,
     markers_zh |-> <<8230, 20197, 21518, 8230>>,
     strong_markers |-> <<<<20197, 21518>>>>, weak_markers |-> <<>>,
     seed_banned |-> <<<<20197, 21518>>>>,
     check_regex |-> <<94, 46, 43, 20197, 21518, 65292, 46, 43, 36>>],
    \* {A}之后，{B}   strong 之后   banned 之后   ^.+之后，.+$
    [id |-> "zh_pat__time__a_zhihou_b__single__l1", level |-> 1, kind |-> "SINGLE",
     tpl |-> <<123, 65, 125, 20043, 21518, 65292, 123, 66, 125>>,
     markers_zh |-> <<8230, 20043, 21518, 8230>>,
     strong_markers |-> <<<<20043, 21518>>>>, weak_markers |-> <<>>,
     seed_banned |-> <<<<20043, 21518>>>>,
     check_regex |-> <<94, 46, 43, 20043, 21518, 65292, 46, 43, 36>>],
    \* {A}之前，{B}   strong 之前   banned 之前   ^.+之前，.+$
    [id |-> "zh_pat__time__a_zhiqian_b__single__l1", level |-> 1, kind |-> "SINGLE",
     tpl |-> <<123, 65, 125, 20043, 21069, 65292, 123, 66, 125>>,
     markers_zh |-> <<8230, 20043, 21069, 8230>>,
     strong_markers |-> <<<<20043, 21069>>>>, weak_markers |-> <<>>,
     seed_banned |-> <<<<20043, 21069>>>>,
     check_regex |-> <<94, 46, 43, 20043, 21069, 65292, 46, 43, 36>>],
    \* 从{A}开始，{B}   strong 开始   banned 开始   ^从.+开始，.+$
    [id |-> "zh_pat__time__cong_kaishi__single__l2", level |-> 2, kind |-> "SINGLE",
     tpl |-> <<20174, 123, 65, 125, 24320, 22987, 65292, 123, 66, 125>>,
     markers_zh |-> <<20174, 8230, 24320, 22987, 8230>>,
     strong_markers |-> <<<<24320, 22987>>>>, weak_markers |-> <<>>,
     seed_banned |-> <<<<24320, 22987>>>>,
     check_regex |-> <<94, 20174, 46, 43, 24320, 22987, 65292, 46, 43, 36>>],
    \* 自从{A}以后，{B}   strong 自从 以后   banned 自从 以后   ^自从.+以后，.+$
    [id |-> "zh_pat__time__zicong_yihou__single__l3", level |-> 3, kind |-> "SINGLE",
     tpl |-> <<33258, 20174, 123, 65, 125, 20197, 21518, 65292, 123, 66, 125>>,
     markers_zh |-> <<33258, 20174, 8230, 20197, 21518, 8230>>,
     strong_markers |-> <<<<33258, 20174>>, <<20197, 21518>>>>, weak_markers |-> <<>>,
     seed_banned |-> <<<<33258, 20174>>, <<20197, 21518>>>>,
     check_regex |-> <<94, 33258, 20174, 46, 43, 20197, 21518, 65292, 46, 43, 36>>],
    \* 随着{A}，{B}   strong 随着   banned 随着   ^随着.+，.+$
    [id |-> "zh_pat__time__suizhe__single__l3", level |-> 3, kind |-> "SINGLE",
     tpl |-> <<38543, 30528, 123, 65, 125, 65292, 123, 66, 125>>,
     markers_zh |-> <<38543, 30528, 8230>>,
     strong_markers |-> <<<<38543, 30528>>>>, weak_markers |-> <<>>,
     seed_banned |-> <<<<38543, 30528>>>>,
     check_regex |-> <<94, 38543, 30528, 46, 43, 65292, 46, 43, 36>>],
    \* 每当{A}，{B}   strong 每当   banned 每当   ^每当.+，.+$
    [id |-> "zh_pat__time__meidang__single__l3", level |-> 3, kind |-> "SINGLE",
     tpl |-> <<27599, 24403, 123, 65, 125, 65292, 123, 66, 125>>,
     markers_zh |-> <<27599, 24403, 8230>>,
     strong_markers |-> <<<<27599, 24403>>>>, weak_markers |-> <<>>,
     seed_banned |-> <<<<27599, 24403>>>>,
     check_regex |-> <<94, 27599, 24403, 46, 43, 65292, 46, 43, 36>>]
  >>

\* PATTERNS_PURPOSE: the pattern table of one relation (strings are sequences of Unicode scalar values).
PATTERNS_PURPOSE ==
  <<
    \* 为了{B}，{A}   strong 为了   banned 为了   ^为了.+，.+$
    [id |-> "zh_pat__purpose__weile__single__l1", level |-> 1, kind |-> "SINGLE",
     tpl |-> <<20026, 20102, 123, 66, 125, 65292, 123, 65, 125>>,
     markers_zh |-> <<20026, 20102, 8230>>,
     strong_markers |-> <<<<20026, 20102>>>>, weak_markers |-> <<>>,
     seed_banned |-> <<<<20026, 20102>>>>,
     check_regex |-> <<94, 20026, 20102, 46, 43, 65292, 46, 43, 36>>],
    \* {A}，为了{B}   strong 为了   banned 为了   ^.+，为了.+$
    [id |-> "zh_pat__purpose__a_weile_b__single__l1", level |-> 1, kind |-> "SINGLE",
     tpl |-> <<123, 65, 125, 65292, 20026, 20102, 123, 66, 125>>,
     markers_zh |-> <<8230, 20026, 20102, 8230>>,
     strong_markers |-> <<<<20026, 20102>>>>, weak_markers |-> <<>>,
     seed_banned |-> <<<<20026, 20102>>>>,
     check_regex |-> <<94, 46, 43, 65292, 20026, 20102, 46, 43, 36>>],
    \* {A}，以便{B}   strong 以便   banned 以便   ^.+，以便.+$
    [id |-> "zh_pat__purpose__yibian__single__l2", level |-> 2, kind |-> "SINGLE",
     tpl |-> <<123, 65, 125, 65292, 20197, 20415, 123, 66, 125>>,
     markers_zh |-> <<20197, 20415, 8230>>,
     strong_markers |-> <<<<20197, 20415>>>>, weak_markers |-> <<>>,
     seed_banned |-> <<<<20197, 20415>>>>,
     check_regex |-> <<94, 46, 43, 65292, 20197, 20415, 46, 43, 36>>],
    \* {A}，好让{B}   strong 好让   banned 好让   ^.+，好让.+$
    [id |-> "zh_pat__purpose__haorang__single__l2", level |-> 2, kind |-> "SINGLE",
     tpl |-> <<123, 65, 125, 65292, 22909, 35753, 123, 66, 125>>,
     markers_zh |-> <<22909, 35753, 8230>>,
     strong_markers |-> <<<<22909, 35753>>>>, weak_markers |-> <<>>,
     seed_banned |-> <<<<22909, 35753>>>>,
     check_regex |-> <<94, 46, 43, 65292, 22909, 35753, 46, 43, 36>>],
    \* {A}，为的是{B}   strong 为的是   banned 为的是   ^.+，为的是.+$
    [id |-> "zh_pat__purpose__weideshi__single__l2", level |-> 2, kind |-> "SINGLE",
     tpl |-> <<123, 65, 125, 65292, 20026, 30340, 26159, 123, 66, 125>>,
     markers_zh |-> <<20026, 30340, 26159, 8230>>,
     strong_markers |-> <<<<20026, 30340, 26159>>>>, weak_markers |-> <<>>,
     seed_banned |-> <<<<20026, 30340, 26159>>>>,
     check_regex |-> <<94, 46, 43, 65292, 20026, 30340, 26159, 46, 43, 36>>],
    \* {A}，免得{B}   strong 免得   banned 免得   ^.+，免得.+$
    [id |-> "zh_pat__purpose__mian_de__single__l3", level |-> 3, kind |-> "SINGLE",
     tpl |-> <<123, 65, 125, 65292, 20813, 24471, 123, 66, 125>>,
     markers_zh |-> <<20813, 24471, 8230>>,
     strong_markers |-> <<<<20813, 24471>>>>, weak_markers |-> <<>>,
     seed_banned |-> <<<<20813, 24471>>>>,
     check_regex |-> <<94, 46, 43, 65292, 20813, 24471, 46, 43, 36>>],
    \* {A}，以免{B}   strong 以免   banned 以免   ^.+，以免.+$
    [id |-> "zh_pat__purpose__yimian__single__l3", level |-> 3, kind |-> "SINGLE",
     tpl |-> <<123, 65, 125, 65292, 20197, 20813, 123, 66, 125>>,
     markers_zh |-> <<20197, 20813, 8230>>,
     strong_markers |-> <<<<20197, 20813>>>>, weak_markers |-> <<>>,
     seed_banned |-> <<<<20197, 20813>>>>,
     check_regex |-> <<94, 46, 43, 65292, 20197, 20813, 46, 43, 36>>],
    \* 为{B}起见，{A}   strong 起见   banned 起见   ^为.+起见，.+$
    [id |-> "zh_pat__purpose__weib_qijian__single__l3", level |-> 3, kind |-> "SINGLE",
     tpl |-> <<20026, 123, 66, 125, 36215, 35265, 65292, 123, 65, 125>>,
     markers_zh |-> <<20026, 8230, 36215, 35265, 8230>>,
     strong_markers |-> <<<<36215, 35265>>>>, weak_markers |-> <<>>,
     seed_banned |-> <<<<36215, 35265>>>>,
     check_regex |-> <<94, 20026, 46, 43, 36215, 35265, 65292, 46, 43, 36>>]
  >>

\* PATTERNS_ADDITION: the pattern table of one relation (strings are sequences of Unicode scalar values).
PATTERNS_ADDITION ==
  <<
    \* 不但{A}，而且{B}   strong 不但 而且   banned 不但 而且   ^不但.+，而且.+$
    [id |-> "zh_pat__add__budan_erqie__pair__l2", level |-> 2, kind |-> "PAIR",
     tpl |-> <<19981, 20294, 123, 65, 125, 65292, 32780, 19988, 123, 66, 125>>,
     markers_zh |-> <<19981, 20294, 8230, 32780, 19988, 8230>>,
     strong_markers |-> <<<<19981, 20294>>, <<32780, 19988>>>>, weak_markers |-> <<>>,
     seed_banned |-> <<<<19981, 20294>>, <<32780, 19988>>>>,
     check_regex |-> <<94, 19981, 20294, 46, 43, 65292, 32780, 19988, 46, 43, 36>>],
    \* 不仅{A}，还{B}   strong 不仅   banned 不仅   ^不仅.+，还.+$
    [id |-> "zh_pat__add__buji_hai__pair__l1", level |-> 1, kind |-> "PAIR",
     tpl |-> <<19981, 20165, 123, 65, 125, 65292, 36824, 123, 66, 125>>,
     markers_zh |-> <<19981, 20165, 8230, 36824, 8230>>,
     strong_markers |-> <<<<19981, 20165>>>>, weak_markers |-> <<<<36824>>>>,
     seed_banned |-> <<<<19981, 20165>>>>,
     check_regex |-> <<94, 19981, 20165, 46, 43, 65292, 36824, 46, 43, 36>>],
    \* {A}，而且{B}   strong 而且   banned 而且   ^.+，而且.+$
    [id |-> "zh_pat__add__a_erqie_b__single__l1", level |-> 1, kind |-> "SINGLE",
     tpl |-> <<123, 65, 125, 65292, 32780, 19988, 123, 66, 125>>,
     markers_zh |-> <<32780, 19988, 8230>>,
     strong_markers |-> <<<<32780, 19988>>>>, weak_markers |-> <<>>,
     seed_banned |-> <<<<32780, 19988>>>>,
     check_regex |-> <<94, 46, 43, 65292, 32780, 19988, 46, 43, 36>>],
    \* {A}，并且{B}   strong 并且   banned 并且   ^.+，并且.+$
    [id |-> "zh_pat__add__a_bingqie_b__single__l2", level |-> 2, kind |-> "SINGLE",
     tpl |-> <<123, 65, 125, 65292, 24182, 19988, 123, 66, 125>>,
     markers_zh |-> <<24182, 19988, 8230>>,
     strong_markers |-> <<<<24182, 19988>>>>, weak_markers |-> <<>>,
     seed_banned |-> <<<<24182, 19988>>>>,
     check_regex |-> <<94, 46, 43, 65292, 24182, 19988, 46, 43, 36>>],
    \* {A}，同时{B}   strong 同时   banned 同时   ^.+，同时.+$
    [id |-> "zh_pat__add__a_tongshi_b__single__l2", level |-> 2, kind |-> "SINGLE",
     tpl |-> <<123, 65, 125, 65292, 21516, 26102, 123, 66, 125>>,
     markers_zh |-> <<21516, 26102, 8230>>,
     strong_markers |-> <<<<21516, 26102>>>>, weak_markers |-> <<>>,
     seed_banned |-> <<<<21516, 26102>>>>,
     check_regex |-> <<94, 46, 43, 65292, 21516, 26102, 46, 43, 36>>],
    \* {A}，也{B}   strong -   banned -   ^.+，也.+$
    [id |-> "zh_pat__add__a_yebing_b__single__l1", level |-> 1, kind |-> "SINGLE",
     tpl |-> <<123, 65, 125, 65292, 20063, 123, 66, 125>>,
     markers_zh |-> <<20063, 8230>>,
     strong_markers |-> <<>>, weak_markers |-> <<<<20063>>>>,
     seed_banned |-> <<>>,
     check_regex |-> <<94, 46, 43, 65292, 20063, 46, 43, 36>>],
    \* 除了{A}以外，还{B}   strong 除了   banned 除了   ^除了.+以外，还.+$
    [id |-> "zh_pat__add__chule_hai__pair__l3", level |-> 3, kind |-> "PAIR",
     tpl |-> <<38500, 20102, 123, 65, 125, 20197, 22806, 65292, 36824, 123, 66, 125>>,
     markers_zh |-> <<38500, 20102, 8230, 20197, 22806, 65292, 36824, 8230>>,
     strong_markers |-> <<<<38500, 20102>>>>, weak_markers |-> <<<<36824>>>>,
     seed_banned |-> <<<<38500, 20102>>>>,
     check_regex |-> <<94, 38500, 20102, 46, 43, 20197, 22806, 65292, 36824, 46, 43, 36>>]
  >>

\* PATTERNS_CHOICE: the pattern table of one relation (strings are sequences of Unicode scalar values).
PATTERNS_CHOICE ==
  <<
    \* 要么{A}，要么{B}   strong 要么   banned 要么   ^要么.+，要么.+$
    [id |-> "zh_pat__choice__yaome_yaome__pair__l1", level |-> 1, kind |-> "PAIR",
     tpl |-> <<35201, 20040, 123, 65, 125, 65292, 35201, 20040, 123, 66, 125>>,
     markers_zh |-> <<35201, 20040, 8230, 35201, 20040, 8230>>,
     strong_markers |-> <<<<35201, 20040>>>>, weak_markers |-> <<>>,
     seed_banned |-> <<<<35201, 20040>>>>,
     check_regex |-> <<94, 35201, 20040, 46, 43, 65292, 35201, 20040, 46, 43, 36>>],
    \* 或者{A}，或者{B}   strong 或者   banned 或者   ^或者.+，或者.+$
    [id |-> "zh_pat__choice__huozhe_huozhe__pair__l2", level |-> 2, kind |-> "PAIR",
     tpl |-> <<25110, 32773, 123, 65, 125, 65292, 25110, 32773, 123, 66, 125>>,
     markers_zh |-> <<25110, 32773, 8230, 25110, 32773, 8230>>,
     strong_markers |-> <<<<25110, 32773>>>>, weak_markers |-> <<>>,
     seed_banned |-> <<<<25110, 32773>>>>,
     check_regex |-> <<94, 25110, 32773, 46, 43, 65292, 25110, 32773, 46, 43, 36>>],
    \* 不是{A}，就是{B}   strong 不是 就是   banned 不是 就是   ^不是.+，就是.+$
    [id |-> "zh_pat__choice__bushi_jiushi__pair__l2", level |-> 2, kind |-> "PAIR",
     tpl |-> <<19981, 26159, 123, 65, 125, 65292, 23601, 26159, 123, 66, 125>>,
     markers_zh |-> <<19981, 26159, 8230, 23601, 26159, 8230>>,
     strong_markers |-> <<<<19981, 26159>>, <<23601, 26159>>>>, weak_markers |-> <<>>,
     seed_banned |-> <<<<19981, 26159>>, <<23601, 26159>>>>,
     check_regex |-> <<94, 19981, 26159, 46, 43, 65292, 23601, 26159, 46, 43, 36>>],
    \* {A}，或者{B}   strong 或者   banned 或者   ^.+，或者.+$
    [id |-> "zh_pat__choice__a_huozhe_b__single__l1", level |-> 1, kind |-> "SINGLE",
     tpl |-> <<123, 65, 125, 65292, 25110, 32773, 123, 66, 125>>,
     markers_zh |-> <<25110, 32773, 8230>>,
     strong_markers |-> <<<<25110, 32773>>>>, weak_markers |-> <<>>,
     seed_banned |-> <<<<25110, 32773>>>>,
     check_regex |-> <<94, 46, 43, 65292, 25110, 32773, 46, 43, 36>>],
    \* 与其{A}，不如{B}   strong 与其 不如   banned 与其 不如   ^与其.+，不如.+$
    [id |-> "zh_pat__choice__yuqi_buru__pair__l3", level |-> 3, kind |-> "PAIR",
     tpl |-> <<19982, 20854, 123, 65, 125, 65292, 19981, 22914, 123, 66, 125>>,
     markers_zh |-> <<19982, 20854, 8230, 19981, 22914, 8230>>,
     strong_markers |-> <<<<19982, 20854>>, <<19981, 22914>>>>, weak_markers |-> <<>>,
     seed_banned |-> <<<<19982, 20854>>, <<19981, 22914>>>>,
     check_regex |-> <<94, 19982, 20854, 46, 43, 65292, 19981, 22914, 46, 43, 36>>],
    \* 宁可{A}，也不{B}   strong 宁可   banned 宁可   ^宁可.+，也不.+$
    [id |-> "zh_pat__choice__ningke_yebu__pair__l3", level |-> 3, kind |-> "PAIR",
     tpl |-> <<23425, 21487, 123, 65, 125, 65292, 20063, 19981, 123, 66, 125>>,
     markers_zh |-> <<23425, 21487, 8230, 20063, 19981, 8230>>,
     strong_markers |-> <<<<23425, 21487>>>>, weak_markers |-> <<<<20063, 19981>>>>,
     seed_banned |-> <<<<23425, 21487>>>>,
     check_regex |-> <<94, 23425, 21487, 46, 43, 65292, 20063, 19981, 46, 43, 36>>]
  >>

CHAIN_PATTERNS ==
  <<
    [id |-> "zh_chain__cause_to_result__v1", step1 |-> REL_CAUSE, step2 |-> REL_RESULT, scene_schema |-> "reason_outcome_followup"],
    [id |-> "zh_chain__condition_to_result__v1", step1 |-> REL_CONDITION, step2 |-> REL_RESULT, scene_schema |-> "condition_outcome_followup"],
    [id |-> "zh_chain__time_to_result__v1", step1 |-> REL_TIME, step2 |-> REL_RESULT, scene_schema |-> "time_event_outcome"],
    [id |-> "zh_chain__contrast_to_result__v1", step1 |-> REL_CONTRAST, step2 |-> REL_RESULT, scene_schema |-> "expectation_actual_consequence"],
    [id |-> "zh_chain__choice_to_condition__v1", step1 |-> REL_CHOICE, step2 |-> REL_CONDITION, scene_schema |-> "optionA_optionB_then_rule"],
    [id |-> "zh_chain__addition_to_result__v1", step1 |-> REL_ADDITION, step2 |-> REL_RESULT, scene_schema |-> "fact1_fact2_inference"],
    [id |-> "zh_chain__purpose_to_result__v1", step1 |-> REL_PURPOSE, step2 |-> REL_RESULT, scene_schema |-> "action_goal_effect"],
    [id |-> "zh_chain__time_to_contrast__v1", step1 |-> REL_TIME, step2 |-> REL_CONTRAST, scene_schema |-> "time_then_now_contrast"],
    [id |-> "zh_chain__condition_to_contrast__v1", step1 |-> REL_CONDITION, step2 |-> REL_CONTRAST, scene_schema |-> "condition_expected_surprise"]
  >>

SCENES ==
  <<
    \* 我没睡够 / 我还是把笔记整理完了 / 第二天上课更轻松了
    [id |-> "zh_scene__study_sleep__v1", schema |-> "reason_outcome_followup",
     slots |-> <<<<25105, 27809, 30561, 22815>>,
                 <<25105, 36824, 26159, 25226, 31508, 35760, 25972, 29702, 23436, 20102>>,
                 <<31532, 20108, 22825, 19978, 35838, 26356, 36731, 26494, 20102>>>>],
    \* 网速不稳 / 会议一直断线 / 我改用手机热点才顺利讲完
    [id |-> "zh_scene__work_wifi__v1", schema |-> "reason_outcome_followup",
     slots |-> <<<<32593, 36895, 19981, 31283>>,
                 <<20250, 35758, 19968, 30452, 26029, 32447>>,
                 <<25105, 25913, 29992, 25163, 26426, 28909, 28857, 25165, 39034, 21033, 35762, 23436>>>>],
    \* 下雨了 / 我没去远处 / 我就在附近的小店慢慢逛
    [id |-> "zh_scene__travel_rain__v1", schema |-> "reason_outcome_followup",
     slots |-> <<<<19979, 38632, 20102>>,
                 <<25105, 27809, 21435, 36828, 22788>>,
                 <<25105, 23601, 22312, 38468, 36817, 30340, 23567, 24215, 24930, 24930, 36891>>>>],
    \* 样品太湿 / 读数不稳定 / 我先烘干再重新测了一次
    [id |-> "zh_scene__lab_sample__v1", schema |-> "reason_outcome_followup",
     slots |-> <<<<26679, 21697, 22826, 28287>>,
                 <<35835, 25968, 19981, 31283, 23450>>,
                 <<25105, 20808, 28888, 24178, 20877, 37325, 26032, 27979, 20102, 19968, 27425>>>>],
    \* 我忘带伞 / 衣服被淋湿了 / 回家后我立刻换了衣服
    [id |-> "zh_scene__daily_no_umbrella__v1", schema |-> "reason_outcome_followup",
     slots |-> <<<<25105, 24536, 24102, 20254>>,
                 <<34915, 26381, 34987, 28107, 28287, 20102>>,
                 <<22238, 23478, 21518, 25105, 31435, 21051, 25442, 20102, 34915, 26381>>>>],
    \* 系统更新后卡顿 / 我打开应用变慢了 / 我清理缓存后顺畅很多
    [id |-> "zh_scene__tech_update_lag__v1", schema |-> "reason_outcome_followup",
     slots |-> <<<<31995, 32479, 26356, 26032, 21518, 21345, 39039>>,
                 <<25105, 25171, 24320, 24212, 29992, 21464, 24930, 20102>>,
                 <<25105, 28165, 29702, 32531, 23384, 21518, 39034, 30021, 24456, 22810>>>>],
    \* 我盐放多了 / 汤太咸了 / 我加了点水才勉强能喝
    [id |-> "zh_scene__kitchen_salt__v1", schema |-> "reason_outcome_followup",
     slots |-> <<<<25105, 30416, 25918, 22810, 20102>>,
                 <<27748, 22826, 21688, 20102>>,
                 <<25105, 21152, 20102, 28857, 27700, 25165, 21193, 24378, 33021, 21917>>>>],
    \* 路上堵车 / 我到得有点晚 / 我下次会早点出门
    [id |-> "zh_scene__bus_traffic__v1", schema |-> "reason_outcome_followup",
     slots |-> <<<<36335, 19978, 22581, 36710>>,
                 <<25105, 21040, 24471, 26377, 28857, 26202>>,
                 <<25105, 19979, 27425, 20250, 26089, 28857, 20986, 38376>>>>],
    \* 打印机卡纸 / 文件没打印出来 / 我把纸重新放好再试了一次
    [id |-> "zh_scene__printer_paper__v1", schema |-> "reason_outcome_followup",
     slots |-> <<<<25171, 21360, 26426, 21345, 32440>>,
                 <<25991, 20214, 27809, 25171, 21360, 20986, 26469>>,
                 <<25105, 25226, 32440, 37325, 26032, 25918, 22909, 20877, 35797, 20102, 19968, 27425>>>>],
    \* 手机电量太低 / 导航一直提醒省电模式 / 我找了个地方先充电
    [id |-> "zh_scene__phone_low_battery__v1", schema |-> "reason_outcome_followup",
     slots |-> <<<<25163, 26426, 30005, 37327, 22826, 20302>>,
                 <<23548, 33322, 19968, 30452, 25552, 37266, 30465, 30005, 27169, 24335>>,
                 <<25105, 25214, 20102, 20010, 22320, 26041, 20808, 20805, 30005>>>>],
    \* 我不设闹钟 / 早上就起不来 / 我只好一路小跑赶时间
    [id |-> "zh_scene__alarm__v1", schema |-> "condition_outcome_followup",
     slots |-> <<<<25105, 19981, 35774, 38393, 38047>>,
                 <<26089, 19978, 23601, 36215, 19981, 26469>>,
                 <<25105, 21482, 22909, 19968, 36335, 23567, 36305, 36214, 26102, 38388>>>>],
    \* 我不备份文件 / 电脑一出问题就会丢资料 / 我现在每周都备份一次
    [id |-> "zh_scene__backup__v1", schema |-> "condition_outcome_followup",
     slots |-> <<<<25105, 19981, 22791, 20221, 25991, 20214>>,
                 <<30005, 33041, 19968, 20986, 38382, 39064, 23601, 20250, 20002, 36164, 26009>>,
                 <<25105, 29616, 22312, 27599, 21608, 37117, 22791, 20221, 19968, 27425>>>>],
    \* 我出门不带伞 / 遇到下雨就会很狼狈 / 我开始把伞放在包里
    [id |-> "zh_scene__umbrella__v1", schema |-> "condition_outcome_followup",
     slots |-> <<<<25105, 20986, 38376, 19981, 24102, 20254>>,
                 <<36935, 21040, 19979, 38632, 23601, 20250, 24456, 29436, 29384>>,
                 <<25105, 24320, 22987, 25226, 20254, 25918, 22312, 21253, 37324>>>>],
    \* 我不提前练习 / 上台就容易紧张 / 我后来每天都练十分钟
    [id |-> "zh_scene__practice__v1", schema |-> "condition_outcome_followup",
     slots |-> <<<<25105, 19981, 25552, 21069, 32451, 20064>>,
                 <<19978, 21488, 23601, 23481, 26131, 32039, 24352>>,
                 <<25105, 21518, 26469, 27599, 22825, 37117, 32451, 21313, 20998, 38047>>>>],
    \* 我晚上早点睡 / 第二天精神就更好 / 我效率也提高了
    [id |-> "zh_scene__sleep_early__v1", schema |-> "condition_outcome_followup",
     slots |-> <<<<25105, 26202, 19978, 26089, 28857, 30561>>,
                 <<31532, 20108, 22825, 31934, 31070, 23601, 26356, 22909>>,
                 <<25105, 25928, 29575, 20063, 25552, 39640, 20102>>>>],
    \* 我不保存密码 / 每次登录都要重输 / 我干脆用密码管理器
    [id |-> "zh_scene__save_password__v1", schema |-> "condition_outcome_followup",
     slots |-> <<<<25105, 19981, 20445, 23384, 23494, 30721>>,
                 <<27599, 27425, 30331, 24405, 37117, 35201, 37325, 36755>>,
                 <<25105, 24178, 33030, 29992, 23494, 30721, 31649, 29702, 22120>>>>],
    \* 我不看天气预报 / 行程就容易被打乱 / 我现在出门前都会看一眼
    [id |-> "zh_scene__check_weather__v1", schema |-> "condition_outcome_followup",
     slots |-> <<<<25105, 19981, 30475, 22825, 27668, 39044, 25253>>,
                 <<34892, 31243, 23601, 23481, 26131, 34987, 25171, 20081>>,
                 <<25105, 29616, 22312, 20986, 38376, 21069, 37117, 20250, 30475, 19968, 30524>>>>],
    \* 我不列计划 / 事情就会越堆越多 / 我开始每天写待办清单
    [id |-> "zh_scene__write_plan__v1", schema |-> "condition_outcome_followup",
     slots |-> <<<<25105, 19981, 21015, 35745, 21010>>,
                 <<20107, 24773, 23601, 20250, 36234, 22534, 36234, 22810>>,
                 <<25105, 24320, 22987, 27599, 22825, 20889, 24453, 21150, 28165, 21333>>>>],
    \* 我下课了 / 我去图书馆复习 / 学习效率提高了
    [id |-> "zh_scene__after_class__v1", schema |-> "time_event_outcome",
     slots |-> <<<<25105, 19979, 35838, 20102>>,
                 <<25105, 21435, 22270, 20070, 39302, 22797, 20064>>,
                 <<23398, 20064, 25928, 29575, 25552, 39640, 20102>>>>],
    \* 我到家了 / 我先洗个澡 / 整个人放松多了
    [id |-> "zh_scene__arrive_home__v1", schema |-> "time_event_outcome",
     slots |-> <<<<25105, 21040, 23478, 20102>>,
                 <<25105, 20808, 27927, 20010, 28577>>,
                 <<25972, 20010, 20154, 25918, 26494, 22810, 20102>>>>],
    \* 会议结束了 / 我把要点整理成文档 / 同事更容易跟进
    [id |-> "zh_scene__finish_meeting__v1", schema |-> "time_event_outcome",
     slots |-> <<<<20250, 35758, 32467, 26463, 20102>>,
                 <<25105, 25226, 35201, 28857, 25972, 29702, 25104, 25991, 26723>>,
                 <<21516, 20107, 26356, 23481, 26131, 36319, 36827>>>>],
    \* 实验做完了 / 我马上记录数据 / 后面分析更顺利
    [id |-> "zh_scene__finish_experiment__v1", schema |-> "time_event_outcome",
     slots |-> <<<<23454, 39564, 20570, 23436, 20102>>,
                 <<25105, 39532, 19978, 35760, 24405, 25968, 25454>>,
                 <<21518, 38754, 20998, 26512, 26356, 39034, 21033>>>>],
    \* 中午到了 / 我出去吃点东西 / 下午不那么饿了
    [id |-> "zh_scene__lunch_time__v1", schema |-> "time_event_outcome",
     slots |-> <<<<20013, 21320, 21040, 20102>>,
                 <<25105, 20986, 21435, 21507, 28857, 19996, 35199>>,
                 <<19979, 21320, 19981, 37027, 20040, 39295, 20102>>>>],
    \* 周末开始了 / 我把房间收拾了一下 / 住起来更舒服了
    [id |-> "zh_scene__weekend_start__v1", schema |-> "time_event_outcome",
     slots |-> <<<<21608, 26411, 24320, 22987, 20102>>,
                 <<25105, 25226, 25151, 38388, 25910, 25342, 20102, 19968, 19979>>,
                 <<20303, 36215, 26469, 26356, 33298, 26381, 20102>>>>],
    \* 截止日期到了 / 我把最后一版提交上去 / 我终于松了口气
    [id |-> "zh_scene__project_deadline__v1", schema |-> "time_event_outcome",
     slots |-> <<<<25130, 27490, 26085, 26399, 21040, 20102>>,
                 <<25105, 25226, 26368, 21518, 19968, 29256, 25552, 20132, 19978, 21435>>,
                 <<25105, 32456, 20110, 26494, 20102, 21475, 27668>>>>],
    \* 雨停了 / 我出去走走 / 心情好了一点
    [id |-> "zh_scene__rain_stop__v1", schema |-> "time_event_outcome",
     slots |-> <<<<38632, 20572, 20102>>,
                 <<25105, 20986, 21435, 36208, 36208>>,
                 <<24515, 24773, 22909, 20102, 19968, 28857>>>>],
    \* 我以为今天会很顺利 / 事情却特别多 / 我忙到很晚才结束
    [id |-> "zh_scene__expect_easy_but_hard__v1", schema |-> "expectation_actual_consequence",
     slots |-> <<<<25105, 20197, 20026, 20170, 22825, 20250, 24456, 39034, 21033>>,
                 <<20107, 24773, 21364, 29305, 21035, 22810>>,
                 <<25105, 24537, 21040, 24456, 26202, 25165, 32467, 26463>>>>],
    \* 我以为十分钟就能搞定 / 过程却拖了很久 / 我后面的安排被迫改了
    [id |-> "zh_scene__expect_fast_but_slow__v1", schema |-> "expectation_actual_consequence",
     slots |-> <<<<25105, 20197, 20026, 21313, 20998, 38047, 23601, 33021, 25630, 23450>>,
                 <<36807, 31243, 21364, 25302, 20102, 24456, 20037>>,
                 <<25105, 21518, 38754, 30340, 23433, 25490, 34987, 36843, 25913, 20102>>>>],
    \* 我以为咖啡店会很安静 / 里面却很吵 / 我只好换个地方
    [id |-> "zh_scene__expect_quiet_but_noisy__v1", schema |-> "expectation_actual_consequence",
     slots |-> <<<<25105, 20197, 20026, 21654, 21857, 24215, 20250, 24456, 23433, 38745>>,
                 <<37324, 38754, 21364, 24456, 21557>>,
                 <<25105, 21482, 22909, 25442, 20010, 22320, 26041>>>>],
    \* 我以为修理不会太贵 / 费用却超出预算 / 我只能先做最必要的部分
    [id |-> "zh_scene__expect_cheaper_but_expensive__v1", schema |-> "expectation_actual_consequence",
     slots |-> <<<<25105, 20197, 20026, 20462, 29702, 19981, 20250, 22826, 36149>>,
                 <<36153, 29992, 21364, 36229, 20986, 39044, 31639>>,
                 <<25105, 21482, 33021, 20808, 20570, 26368, 24517, 35201, 30340, 37096, 20998>>>>],
    \* 我以为资料都准备好了 / 关键文件却找不到 / 我只好重新整理一遍
    [id |-> "zh_scene__expect_ready_but_missing__v1", schema |-> "expectation_actual_consequence",
     slots |-> <<<<25105, 20197, 20026, 36164, 26009, 37117, 20934, 22791, 22909, 20102>>,
                 <<20851, 38190, 25991, 20214, 21364, 25214, 19981, 21040>>,
                 <<25105, 21482, 22909, 37325, 26032, 25972, 29702, 19968, 36941>>>>],
    \* 我以为今天不会下雨 / 外面却突然变天 / 我被淋得有点狼狈
    [id |-> "zh_scene__expect_good_weather_but_rain__v1", schema |-> "expectation_actual_consequence",
     slots |-> <<<<25105, 20197, 20026, 20170, 22825, 19981, 20250, 19979, 38632>>,
                 <<22806, 38754, 21364, 31361, 28982, 21464, 22825>>,
                 <<25105, 34987, 28107, 24471, 26377, 28857, 29436, 29384>>>>],
    \* 我可以自己做饭 / 我也可以点外卖 / 如果我点外卖，就要多等一会儿
    [id |-> "zh_scene__option_cook_or_takeout__v1", schema |-> "optionA_optionB_then_rule",
     slots |-> <<<<25105, 21487, 20197, 33258, 24049, 20570, 39277>>,
                 <<25105, 20063, 21487, 20197, 28857, 22806, 21334>>,
                 <<22914, 26524, 25105, 28857, 22806, 21334, 65292, 23601, 35201, 22810, 31561, 19968, 20250, 20799>>>>],
    \* 我可以走路过去 / 我也可以坐公交 / 如果我坐公交，就得看发车时间
    [id |-> "zh_scene__option_walk_or_bus__v1", schema |-> "optionA_optionB_then_rule",
     slots |-> <<<<25105, 21487, 20197, 36208, 36335, 36807, 21435>>,
                 <<25105, 20063, 21487, 20197, 22352, 20844, 20132>>,
                 <<22914, 26524, 25105, 22352, 20844, 20132, 65292, 23601, 24471, 30475, 21457, 36710, 26102, 38388>>>>],
    \* 我可以坐地铁 / 我也可以打车 / 如果我打车，就会多花一些钱
    [id |-> "zh_scene__option_train_or_taxi__v1", schema |-> "optionA_optionB_then_rule",
     slots |-> <<<<25105, 21487, 20197, 22352, 22320, 38081>>,
                 <<25105, 20063, 21487, 20197, 25171, 36710>>,
                 <<22914, 26524, 25105, 25171, 36710, 65292, 23601, 20250, 22810, 33457, 19968, 20123, 38065>>>>],
    \* 我可以现在就开始 / 我也可以拖到明天 / 如果我拖到明天，就会更赶
    [id |-> "zh_scene__option_now_or_later__v1", schema |-> "optionA_optionB_then_rule",
     slots |-> <<<<25105, 21487, 20197, 29616, 22312, 23601, 24320, 22987>>,
                 <<25105, 20063, 21487, 20197, 25302, 21040, 26126, 22825>>,
                 <<22914, 26524, 25105, 25302, 21040, 26126, 22825, 65292, 23601, 20250, 26356, 36214>>>>],
    \* 我昨晚睡得很晚 / 今天还要早起 / 我整天都很困
    [id |-> "zh_scene__two_facts_tired__v1", schema |-> "fact1_fact2_inference",
     slots |-> <<<<25105, 26152, 26202, 30561, 24471, 24456, 26202>>,
                 <<20170, 22825, 36824, 35201, 26089, 36215>>,
                 <<25105, 25972, 22825, 37117, 24456, 22256>>>>],
    \* 我这周任务很多 / 每天还要开好几场会 / 我几乎没有休息时间
    [id |-> "zh_scene__two_facts_busy__v1", schema |-> "fact1_fact2_inference",
     slots |-> <<<<25105, 36825, 21608, 20219, 21153, 24456, 22810>>,
                 <<27599, 22825, 36824, 35201, 24320, 22909, 20960, 22330, 20250>>,
                 <<25105, 20960, 20046, 27809, 26377, 20241, 24687, 26102, 38388>>>>],
    \* 我把路线提前查好了 / 出门前也准备齐东西 / 路上省了不少时间
    [id |-> "zh_scene__two_facts_save_time__v1", schema |-> "fact1_fact2_inference",
     slots |-> <<<<25105, 25226, 36335, 32447, 25552, 21069, 26597, 22909, 20102>>,
                 <<20986, 38376, 21069, 20063, 20934, 22791, 40784, 19996, 35199>>,
                 <<36335, 19978, 30465, 20102, 19981, 23569, 26102, 38388>>>>],
    \* 我把手机调成静音 / 我还关掉了消息提醒 / 我更能专心做事
    [id |-> "zh_scene__two_facts_more_focus__v1", schema |-> "fact1_fact2_inference",
     slots |-> <<<<25105, 25226, 25163, 26426, 35843, 25104, 38745, 38899>>,
                 <<25105, 36824, 20851, 25481, 20102, 28040, 24687, 25552, 37266>>,
                 <<25105, 26356, 33021, 19987, 24515, 20570, 20107>>>>],
    \* 我买了不少食材 / 还买了很多零食 / 这个月开销变大了
    [id |-> "zh_scene__two_facts_cost__v1", schema |-> "fact1_fact2_inference",
     slots |-> <<<<25105, 20080, 20102, 19981, 23569, 39135, 26448>>,
                 <<36824, 20080, 20102, 24456, 22810, 38646, 39135>>,
                 <<36825, 20010, 26376, 24320, 38144, 21464, 22823, 20102>>>>],
    \* 我提前半小时出门 / 赶上早班车 / 我没有迟到
    [id |-> "zh_scene__leave_early__v1", schema |-> "action_goal_effect",
     slots |-> <<<<25105, 25552, 21069, 21322, 23567, 26102, 20986, 38376>>,
                 <<36214, 19978, 26089, 29677, 36710>>,
                 <<25105, 27809, 26377, 36831, 21040>>>>],
    \* 我先写了提纲 / 讲清楚重点 / 汇报更有条理
    [id |-> "zh_scene__write_outline__v1", schema |-> "action_goal_effect",
     slots |-> <<<<25105, 20808, 20889, 20102, 25552, 32434>>,
                 <<35762, 28165, 26970, 37325, 28857>>,
                 <<27719, 25253, 26356, 26377, 26465, 29702>>>>],
    \* 我先把样品烘干 / 读数更稳定 / 数据更可靠
    [id |-> "zh_scene__dry_sample__v1", schema |-> "action_goal_effect",
     slots |-> <<<<25105, 20808, 25226, 26679, 21697, 28888, 24178>>,
                 <<35835, 25968, 26356, 31283, 23450>>,
                 <<25968, 25454, 26356, 21487, 38752>>>>],
    \* 我清理了缓存 / 系统运行更顺畅 / 应用打开更快
    [id |-> "zh_scene__clear_cache__v1", schema |-> "action_goal_effect",
     slots |-> <<<<25105, 28165, 29702, 20102, 32531, 23384>>,
                 <<31995, 32479, 36816, 34892, 26356, 39034, 30021>>,
                 <<24212, 29992, 25171, 24320, 26356, 24555>>>>],
    \* 我提前准备了问题清单 / 沟通更高效 / 会议时间缩短了
    [id |-> "zh_scene__prepare_questions__v1", schema |-> "action_goal_effect",
     slots |-> <<<<25105, 25552, 21069, 20934, 22791, 20102, 38382, 39064, 28165, 21333>>,
                 <<27807, 36890, 26356, 39640, 25928>>,
                 <<20250, 35758, 26102, 38388, 32553, 30701, 20102>>>>],
    \* 以前我复习很随意 / 我经常记不住重点 / 现在我却更有方法了
    [id |-> "zh_scene__then_now_study__v1", schema |-> "time_then_now_contrast",
     slots |-> <<<<20197, 21069, 25105, 22797, 20064, 24456, 38543, 24847>>,
                 <<25105, 32463, 24120, 35760, 19981, 20303, 37325, 28857>>,
                 <<29616, 22312, 25105, 21364, 26356, 26377, 26041, 27861, 20102>>>>],
    \* 以前我总是熬夜 / 我白天很没精神 / 现在我反而睡得更规律
    [id |-> "zh_scene__then_now_sleep__v1", schema |-> "time_then_now_contrast",
     slots |-> <<<<20197, 21069, 25105, 24635, 26159, 29100, 22812>>,
                 <<25105, 30333, 22825, 24456, 27809, 31934, 31070>>,
                 <<29616, 22312, 25105, 21453, 32780, 30561, 24471, 26356, 35268, 24459>>>>],
    \* 刚开始我不太会用这个工具 / 我做事很慢 / 后来我却越来越熟练
    [id |-> "zh_scene__then_now_workflow__v1", schema |-> "time_then_now_contrast",
     slots |-> <<<<21018, 24320, 22987, 25105, 19981, 22826, 20250, 29992, 36825, 20010, 24037, 20855>>,
                 <<25105, 20570, 20107, 24456, 24930>>,
                 <<21518, 26469, 25105, 21364, 36234, 26469, 36234, 29087, 32451>>>>],
    \* 我提前准备了 / 事情本来应该很顺利 / 结果却还是出了差错
    [id |-> "zh_scene__prepared_but_mistake__v1", schema |-> "condition_expected_surprise",
     slots |-> <<<<25105, 25552, 21069, 20934, 22791, 20102>>,
                 <<20107, 24773, 26412, 26469, 24212, 35813, 24456, 39034, 21033>>,
                 <<32467, 26524, 21364, 36824, 26159, 20986, 20102, 24046, 38169>>>>],
    \* 我出门很早 / 我本来应该不会迟到 / 路上却偏偏堵得厉害
    [id |-> "zh_scene__leave_early_but_late__v1", schema |-> "condition_expected_surprise",
     slots |-> <<<<25105, 20986, 38376, 24456, 26089>>,
                 <<25105, 26412, 26469, 24212, 35813, 19981, 20250, 36831, 21040>>,
                 <<36335, 19978, 21364, 20559, 20559, 22581, 24471, 21385, 23475>>>>],
    \* 我练习了很多次 / 我本来应该很自信 / 上台却还是有点紧张
    [id |-> "zh_scene__practice_but_nervous__v1", schema |-> "condition_expected_surprise",
     slots |-> <<<<25105, 32451, 20064, 20102, 24456, 22810, 27425>>,
                 <<25105, 26412, 26469, 24212, 35813, 24456, 33258, 20449>>,
                 <<19978, 21488, 21364, 36824, 26159, 26377, 28857, 32039, 24352>>>>]
  >>

----------------------------------------------------------------------------
(* Pure functions of coreplus.rs. *)

\* Option::None / Option::Some
None == [some |-> FALSE]

Some(v) == [some |-> TRUE, value |-> v]

\* Result<(), String>: Ok(()) / Err(message)
Ok == [ok |-> TRUE, err |-> ""]

Err(message) == [ok |-> FALSE, err |-> message]

\* render_template_ab putting `a` into both placeholders
render_template_ab_same(tpl, a, b) ==
  replace(replace(tpl, <<123, 65, 125>>, a), <<123, 66, 125>>, a)

render_template_ab(tpl, a, b) ==
  replace(replace(tpl, <<123, 65, 125>>, a), <<123, 66, 125>>, b)

\* trim_sentence_trailing_punct taking off one trailing mark only
trim_sentence_trailing_punct_once(s) ==
  LET t == trim(s) IN
    trim(IF t # <<>> /\ t[Len(t)] \in TerminalPunct THEN SubSeq(t, 1, Len(t) - 1) ELSE t)

trim_sentence_trailing_punct(s) ==
  trim(trim_end_matches(trim(s), TerminalPunct))

\* build_expected_reference_answer joining the sentences with an ASCII full stop
build_expected_reference_answer_ascii_stop(sp) ==
  LET s1 == render_template_ab(sp.step1.pattern_tpl, sp.props.p1, sp.props.p2)
      s2 == render_template_ab(sp.step2.pattern_tpl, sp.props.p2, sp.props.p3)
  IN trim_sentence_trailing_punct(s1) \o <<46>> \o trim_sentence_trailing_punct(s2)

build_expected_reference_answer(sp) ==
  LET s1 == render_template_ab(sp.step1.pattern_tpl, sp.props.p1, sp.props.p2)
      s2 == render_template_ab(sp.step2.pattern_tpl, sp.props.p2, sp.props.p3)
  IN trim_sentence_trailing_punct(s1) \o <<FullStop>> \o trim_sentence_trailing_punct(s2)

\* Option<(String, String)>
split_two_sentences(text) ==
  LET t == trim(text)
      canonical == [i \in 1..Len(t) |-> IF t[i] \in ExclaimQuestion THEN FullStop ELSE t[i]]
      without_tail == trim(trim_end_matches(canonical, TerminalPunct))
      pieces == split(without_tail, <<FullStop>>)
      trimmed == [i \in 1..Len(pieces) |-> trim(pieces[i])]
      parts == SelectSeq(trimmed, LAMBDA s : s # <<>>)
  IN IF Len(parts) # 2 THEN None ELSE Some(<<parts[1], parts[2]>>)

normalize_for_compare(s) ==
  SelectSeq(s, LAMBDA c : ~IsWhitespace(c))

\* The loop of simple_regex_like_match over parts[k..]; [ok |-> FALSE] is `return false`,
\* otherwise the value of last_match_end after the loop.
RECURSIVE match_parts(_, _, _, _, _, _, _)
match_parts(parts, k, text, anchored_first, search_from, first_literal_seen, last_match_end) ==
  IF k > Len(parts) THEN [ok |-> TRUE, last_match_end |-> last_match_end]
  ELSE LET part == parts[k] IN
    IF part = <<>> THEN
      match_parts(parts, k + 1, text, anchored_first, search_from, first_literal_seen, last_match_end)
    ELSE IF ~first_literal_seen /\ anchored_first THEN
      IF ~starts_with(slice_from(text, search_from), part) THEN [ok |-> FALSE, last_match_end |-> last_match_end]
      ELSE match_parts(parts, k + 1, text, anchored_first,
                       search_from + Len(part), TRUE, search_from + Len(part))
    ELSE LET found_at == find(slice_from(text, search_from), part) IN
      IF found_at = NotFound THEN [ok |-> FALSE, last_match_end |-> last_match_end]
      ELSE match_parts(parts, k + 1, text, anchored_first,
                       search_from + found_at + Len(part), TRUE, search_from + found_at + Len(part))

\* simple_regex_like_match without the exemption of a trailing wildcard from the end anchor
simple_regex_like_match_strict_end(pattern, text) ==
  LET p0 == trim(pattern)
      anchored_start == starts_with(p0, <<94>>)
      anchored_end == ends_with(p0, <<36>>)
      p1 == IF anchored_start THEN slice_from(p0, 1) ELSE p0
      p == IF anchored_end /\ p1 # <<>> THEN SubSeq(p1, 1, Len(p1) - 1) ELSE p1
      starts_with_wild == starts_with(p, <<46, 43>>)
      parts == split(p, <<46, 43>>)
  IN IF \A i \in 1..Len(parts) : parts[i] = <<>> THEN text # <<>>
     ELSE LET r == match_parts(parts, 1, text, anchored_start /\ ~starts_with_wild, 0, FALSE, 0) IN
       IF ~r.ok THEN FALSE
       ELSE IF anchored_end THEN r.last_match_end = Len(text)
       ELSE TRUE

simple_regex_like_match(pattern, text) ==
  LET p0 == trim(pattern)
      anchored_start == starts_with(p0, <<94>>)
      anchored_end == ends_with(p0, <<36>>)
      p1 == IF anchored_start THEN slice_from(p0, 1) ELSE p0
      p == IF anchored_end /\ p1 # <<>> THEN SubSeq(p1, 1, Len(p1) - 1) ELSE p1
      starts_with_wild == starts_with(p, <<46, 43>>)
      ends_with_wild == ends_with(p, <<46, 43>>)
      parts == split(p, <<46, 43>>)
  IN IF \A i \in 1..Len(parts) : parts[i] = <<>> THEN text # <<>>
     ELSE LET r == match_parts(parts, 1, text, anchored_start /\ ~starts_with_wild, 0, FALSE, 0) IN
       IF ~r.ok THEN FALSE
       ELSE IF anchored_end /\ ~ends_with_wild THEN r.last_match_end = Len(text)
       ELSE TRUE

contains_any(text, tokens) ==
  \E t \in tokens : t # <<>> /\ contains(text, t)

\* contains_any_marker seeing a marker only at the start of the text
contains_any_marker_at_start(text, markers) ==
  \E i \in 1..Len(markers) : markers[i] # <<>> /\ starts_with(text, markers[i])

contains_any_marker(text, markers) ==
  \E i \in 1..Len(markers) : markers[i] # <<>> /\ contains(text, markers[i])

\* the first strong marker the sentence lacks (0 if it has them all)
first_missing_marker(step, sentence) ==
  LET missing == {i \in 1..Len(step.strong_markers) :
                    step.strong_markers[i] # <<>> /\ ~contains(sentence, step.strong_markers[i])}
  IN IF missing = {} THEN 0 ELSE CHOOSE i \in missing : \A j \in missing : i <= j

\* validate_sentence_pattern_only without the structural expression
validate_sentence_markers_only(step, sentence) ==
  IF first_missing_marker(step, sentence) # 0 THEN Err("missing strong marker")
  ELSE Ok

validate_sentence_pattern_only(step, sentence) ==
  IF first_missing_marker(step, sentence) # 0 THEN Err("missing strong marker")
  ELSE IF ~simple_regex_like_match(step.check_regex, sentence) THEN Err("pattern mismatch")
  ELSE Ok

\* validate_sentence without the two proposition checks
validate_sentence_no_props(step, sentence, expected_a, expected_b) ==
  validate_sentence_pattern_only(step, sentence)

validate_sentence(step, sentence, expected_a, expected_b) ==
  IF ~contains(sentence, expected_a) THEN Err("missing proposition A")
  ELSE IF ~contains(sentence, expected_b) THEN Err("missing proposition B")
  ELSE IF first_missing_marker(step, sentence) # 0 THEN Err("missing strong marker")
  ELSE IF ~simple_regex_like_match(step.check_regex, sentence) THEN Err("pattern mismatch")
  ELSE Ok

\* item is [seed_zh, reference_answer_zh]; the other fields of CorePlusGeneratedItem are not read
validate_generated_item(sp, item) ==
  IF trim(item.seed_zh) # trim(sp.seed) THEN Err("seed_zh does not match SPEC.seed exactly")
  ELSE LET expected_ref == build_expected_reference_answer(sp)
           got == split_two_sentences(item.reference_answer_zh)
           exp == split_two_sentences(expected_ref)
       IN IF ~got.some THEN Err("reference_answer_zh must contain exactly two sentences")
          ELSE IF ~exp.some THEN Err("Internal error: expected reference split failed")
          ELSE IF normalize_for_compare(got.value[1]) # normalize_for_compare(exp.value[1])
                  \/ normalize_for_compare(got.value[2]) # normalize_for_compare(exp.value[2])
            THEN Err("reference_answer_zh did not apply templates exactly to P1/P2/P3")
          ELSE IF ~validate_sentence(sp.step1, got.value[1], sp.props.p1, sp.props.p2).ok
            THEN Err("reference sentence1 invalid")
          ELSE IF ~validate_sentence(sp.step2, got.value[2], sp.props.p2, sp.props.p3).ok
            THEN Err("reference sentence2 invalid")
          ELSE Ok

\* clamp_score without the clamping
clamp_score_none(score) == score

\* the two clamping ifs
clamp_score(score) ==
  LET lo == IF score < 0 THEN 0 ELSE score
  IN IF lo > 100 THEN 100 ELSE lo

\* trimmed_answer without the trimming
trimmed_answer_raw(user_answer) == user_answer

\* `let answer = user_answer.trim()`
trimmed_answer(user_answer) == trim(user_answer)

\* evaluate_core_plus_core_answer falling back to two empty sentences
evaluate_core_plus_core_answer_empty_fallback(sp, user_answer) ==
  LET answer == trimmed_answer(user_answer) IN
    IF answer = <<>> THEN [correct |-> FALSE, score |-> 0, explanation |-> <<"empty">>]
    ELSE
      LET two == split_two_sentences(answer)
          s1 == IF two.some THEN two.value[1] ELSE <<>>
          s2 == IF two.some THEN two.value[2] ELSE <<>>
          bad_format == ~two.some
          bad_step1 == ~validate_sentence_pattern_only(sp.step1, s1).ok
          bad_step2 == ~validate_sentence_pattern_only(sp.step2, s2).ok
          seed_phrase == trim_sentence_trailing_punct(sp.seed)
          off_seed == seed_phrase # <<>> /\ ~contains(answer, seed_phrase)
          bleed1 == contains_any_marker(s1, sp.step2.strong_markers)
          bleed2 == contains_any_marker(s2, sp.step1.strong_markers)
          score0 == 100
          score1 == IF bad_format THEN score0 - 40 ELSE score0
          score2 == IF bad_step1 THEN score1 - 25 ELSE score1
          score3 == IF bad_step2 THEN score2 - 25 ELSE score2
          score4 == IF off_seed THEN score3 - 15 ELSE score3
          score5 == IF bleed1 THEN score4 - 8 ELSE score4
          score6 == IF bleed2 THEN score5 - 8 ELSE score5
          score == clamp_score(score6)
          notes == (IF bad_format THEN <<"format">> ELSE <<>>)
                   \o (IF bad_step1 THEN <<"sentence1">> ELSE <<>>)
                   \o (IF bad_step2 THEN <<"sentence2">> ELSE <<>>)
                   \o (IF off_seed THEN <<"seed">> ELSE <<>>)
                   \o (IF bleed1 THEN <<"bleed1">> ELSE <<>>)
                   \o (IF bleed2 THEN <<"bleed2">> ELSE <<>>)
      IN [correct |-> score >= 60, score |-> score,
          explanation |-> IF notes = <<>> THEN <<"success">> ELSE notes]

\* evaluate_core_plus_core_answer checking each sentence for its propositions as well
evaluate_core_plus_core_answer_with_props(sp, user_answer) ==
  LET answer == trimmed_answer(user_answer) IN
    IF answer = <<>> THEN [correct |-> FALSE, score |-> 0, explanation |-> <<"empty">>]
    ELSE
      LET two == split_two_sentences(answer)
          s1 == IF two.some THEN two.value[1] ELSE answer
          s2 == IF two.some THEN two.value[2] ELSE answer
          bad_format == ~two.some
          bad_step1 == ~validate_sentence(sp.step1, s1, sp.props.p1, sp.props.p2).ok
          bad_step2 == ~validate_sentence(sp.step2, s2, sp.props.p2, sp.props.p3).ok
          seed_phrase == trim_sentence_trailing_punct(sp.seed)
          off_seed == seed_phrase # <<>> /\ ~contains(answer, seed_phrase)
          bleed1 == contains_any_marker(s1, sp.step2.strong_markers)
          bleed2 == contains_any_marker(s2, sp.step1.strong_markers)
          score0 == 100
          score1 == IF bad_format THEN score0 - 40 ELSE score0
          score2 == IF bad_step1 THEN score1 - 25 ELSE score1
          score3 == IF bad_step2 THEN score2 - 25 ELSE score2
          score4 == IF off_seed THEN score3 - 15 ELSE score3
          score5 == IF bleed1 THEN score4 - 8 ELSE score4
          score6 == IF bleed2 THEN score5 - 8 ELSE score5
          score == clamp_score(score6)
          notes == (IF bad_format THEN <<"format">> ELSE <<>>)
                   \o (IF bad_step1 THEN <<"sentence1">> ELSE <<>>)
                   \o (IF bad_step2 THEN <<"sentence2">> ELSE <<>>)
                   \o (IF off_seed THEN <<"seed">> ELSE <<>>)
                   \o (IF bleed1 THEN <<"bleed1">> ELSE <<>>)
                   \o (IF bleed2 THEN <<"bleed2">> ELSE <<>>)
      IN [correct |-> score >= 60, score |-> score,
          explanation |-> IF notes = <<>> THEN <<"success">> ELSE notes]

\* (bool, f32, String).  The explanation is <<"empty">>, <<"success">> or the notes
\* pushed, as tags, in the order the code pushes them.
evaluate_core_plus_core_answer(sp, user_answer) ==
  LET answer == trimmed_answer(user_answer) IN
    IF answer = <<>> THEN [correct |-> FALSE, score |-> 0, explanation |-> <<"empty">>]
    ELSE
      LET two == split_two_sentences(answer)
          s1 == IF two.some THEN two.value[1] ELSE answer
          s2 == IF two.some THEN two.value[2] ELSE answer
          bad_format == ~two.some
          bad_step1 == ~validate_sentence_pattern_only(sp.step1, s1).ok
          bad_step2 == ~validate_sentence_pattern_only(sp.step2, s2).ok
          seed_phrase == trim_sentence_trailing_punct(sp.seed)
          off_seed == seed_phrase # <<>> /\ ~contains(answer, seed_phrase)
          bleed1 == contains_any_marker(s1, sp.step2.strong_markers)
          bleed2 == contains_any_marker(s2, sp.step1.strong_markers)
          score0 == 100
          score1 == IF bad_format THEN score0 - 40 ELSE score0
          score2 == IF bad_step1 THEN score1 - 25 ELSE score1
          score3 == IF bad_step2 THEN score2 - 25 ELSE score2
          score4 == IF off_seed THEN score3 - 15 ELSE score3
          score5 == IF bleed1 THEN score4 - 8 ELSE score4
          score6 == IF bleed2 THEN score5 - 8 ELSE score5
          score == clamp_score(score6)
          notes == (IF bad_format THEN <<"format">> ELSE <<>>)
                   \o (IF bad_step1 THEN <<"sentence1">> ELSE <<>>)
                   \o (IF bad_step2 THEN <<"sentence2">> ELSE <<>>)
                   \o (IF off_seed THEN <<"seed">> ELSE <<>>)
                   \o (IF bleed1 THEN <<"bleed1">> ELSE <<>>)
                   \o (IF bleed2 THEN <<"bleed2">> ELSE <<>>)
      IN [correct |-> score >= 60, score |-> score,
          explanation |-> IF notes = <<>> THEN <<"success">> ELSE notes]

to_spec_step(relation, p) ==
  [relation |-> relation, pattern_id |-> p.id, pattern_tpl |-> p.tpl, markers_zh |-> p.markers_zh,
   kind |-> p.kind, level |-> p.level, check_regex |-> p.check_regex,
   strong_markers |-> p.strong_markers, weak_markers |-> p.weak_markers]

difficulty_to_target_level(d) ==
  LET norm == to_lowercase(trim(d))
      parsed == IF starts_with(norm, <<104, 115, 107>>) THEN parse_u8(slice_from(norm, 3)) ELSE ParseError
      n == IF parsed = ParseError THEN 3 ELSE parsed
  IN IF n <= 2 THEN 1 ELSE IF n <= 4 THEN 2 ELSE 3

\* chain_matches_difficulty matching the chain's id, not its scene schema, against the schemas
chain_matches_difficulty_by_id(chain, level) ==
  IF level <= 1 THEN
    chain.id \in {"reason_outcome_followup", "condition_outcome_followup",
                  "time_event_outcome", "fact1_fact2_inference", "action_goal_effect"}
  ELSE IF level = 2 THEN chain.id # "condition_expected_surprise"
  ELSE TRUE

\* chain_matches_difficulty without the exclusion at level 2
chain_matches_difficulty_no_blacklist(chain, level) ==
  IF level <= 1 THEN
    chain.scene_schema \in {"reason_outcome_followup", "condition_outcome_followup",
                            "time_event_outcome", "fact1_fact2_inference", "action_goal_effect"}
  ELSE TRUE

chain_matches_difficulty(chain, level) ==
  IF level <= 1 THEN
    chain.scene_schema \in {"reason_outcome_followup", "condition_outcome_followup",
                            "time_event_outcome", "fact1_fact2_inference", "action_goal_effect"}
  ELSE IF level = 2 THEN chain.scene_schema # "condition_expected_surprise"
  ELSE TRUE

level3_plus_tokens ==
  <<<<39044, 31639>>, <<20851, 38190>>, <<32531, 23384>>, <<26679, 21697>>, <<23454, 39564>>, <<27719, 25253>>, <<27807, 36890>>, <<25928, 29575>>, <<25130, 27490>>, <<30465, 30005, 27169, 24335>>, <<28909, 28857>>, <<21457, 36710, 26102, 38388>>, <<25552, 32434>>, <<25968, 25454>>, <<20998, 26512>>, <<36164, 26009>>, <<34987, 36843>>, <<20559, 20559>>, <<29436, 29384>>, <<36234, 26469, 36234, 29087, 32451>>>>

level2_plus_tokens ==
  <<<<25972, 29702>>, <<36335, 32447>>, <<38745, 38899>>, <<28040, 24687, 25552, 37266>>, <<24453, 21150>>, <<25302, 21040, 26126, 22825>>, <<20960, 20046, 27809, 26377, 20241, 24687, 26102, 38388>>, <<21518, 38754, 30340, 23433, 25490>>, <<24178, 33030>>, <<30465, 20102, 19981, 23569, 26102, 38388>>, <<21482, 22909>>>>

any_token_in(tokens, joined) ==
  \E i \in 1..Len(tokens) : contains(joined, tokens[i])

\* scene_matches_difficulty whose level-1 branch forgets the level-2 token tier
scene_matches_difficulty_one_tier(p1, p2, p3, level) ==
  LET c1 == Len(p1)
      c2 == Len(p2)
      c3 == Len(p3)
      total == c1 + c2 + c3
      joined == p1 \o p2 \o p3
  IN IF level <= 1 THEN
       IF c1 > 12 \/ c2 > 12 \/ c3 > 12 \/ total > 32 THEN FALSE
       ELSE IF any_token_in(level3_plus_tokens, joined) THEN FALSE
       ELSE TRUE
     ELSE IF level = 2 THEN
       IF c1 > 16 \/ c2 > 16 \/ c3 > 16 \/ total > 44 THEN FALSE
       ELSE IF any_token_in(level3_plus_tokens, joined) THEN FALSE
       ELSE TRUE
     ELSE TRUE

scene_matches_difficulty(p1, p2, p3, level) ==
  LET c1 == Len(p1)
      c2 == Len(p2)
      c3 == Len(p3)
      total == c1 + c2 + c3
      joined == p1 \o p2 \o p3
  IN IF level <= 1 THEN
       IF c1 > 12 \/ c2 > 12 \/ c3 > 12 \/ total > 32 THEN FALSE
       ELSE IF any_token_in(level3_plus_tokens, joined) THEN FALSE
       ELSE IF any_token_in(level2_plus_tokens, joined) THEN FALSE
       ELSE TRUE
     ELSE IF level = 2 THEN
       IF c1 > 16 \/ c2 > 16 \/ c3 > 16 \/ total > 44 THEN FALSE
       ELSE IF any_token_in(level3_plus_tokens, joined) THEN FALSE
       ELSE TRUE
     ELSE TRUE

patterns_for_relation(relation) ==
  CASE relation = REL_CAUSE -> PATTERNS_CAUSE
    [] relation = REL_RESULT -> PATTERNS_RESULT
    [] relation = REL_CONDITION -> PATTERNS_CONDITION
    [] relation = REL_CONTRAST -> PATTERNS_CONTRAST
    [] relation = REL_TIME -> PATTERNS_TIME
    [] relation = REL_PURPOSE -> PATTERNS_PURPOSE
    [] relation = REL_ADDITION -> PATTERNS_ADDITION
    [] relation = REL_CHOICE -> PATTERNS_CHOICE
    [] OTHER -> <<>>

----------------------------------------------------------------------------
(* Inputs. *)

\* "hsk1" .. "hsk6"
Difficulties == {<<104, 115, 107, 48 + n>> : n \in 1..6}

\* one difficulty string per target level: "hsk1", "hsk3", "hsk5"
LevelDifficulties == {<<104, 115, 107, 49>>, <<104, 115, 107, 51>>, <<104, 115, 107, 53>>}

\* the retry budgets of the model
Budgets == 0..MaxTries

NoFrame == [target_level_max |-> 0, tries |-> 0, last_reject |-> "returned"]

NoSpec == [version |-> "none"]

NoCall == [called |-> FALSE]

NoScan == [status |-> "idle"]

----------------------------------------------------------------------------
(* sample_core_plus_core_spec: one action per loop iteration, one for the  *)
(* exit of the loop.                                                       *)

\* pattern_pool without the level filter
pattern_pool_unfiltered(relation, level) ==
  patterns_for_relation(relation)

\* the pool `patterns_for_relation(rel).iter().filter(|p| p.level <= level)`
pattern_pool(relation, level) ==
  SelectSeq(patterns_for_relation(relation), LAMBDA p : p.level <= level)

\* scene_pool_of without the filter on the schema
scene_pool_unfiltered(schema) == SCENES

\* the pool `SCENES.iter().filter(|s| s.schema == schema)`
scene_pool_of(schema) ==
  SelectSeq(SCENES, LAMBDA s : s.schema = schema)

\* banned_tokens without the tokens of the step 1 pattern
banned_tokens_step2_only(step1_pat, step2_pat) ==
  {step2_pat.seed_banned[i] : i \in 1..Len(step2_pat.seed_banned)}

\* the HashSet of both patterns' banned seed tokens
banned_tokens(step1_pat, step2_pat) ==
  {step1_pat.seed_banned[i] : i \in 1..Len(step1_pat.seed_banned)}
    \cup {step2_pat.seed_banned[i] : i \in 1..Len(step2_pat.seed_banned)}

\* the struct literal of the `return Ok(..)`
make_spec(chain, step1_pat, step2_pat, scene) ==
  [version |-> VERSION, language |-> LANGUAGE, mode |-> MODE,
   chain_id |-> chain.id,
   chain_step1_relation |-> chain.step1,
   chain_step2_relation |-> chain.step2,
   scene_id |-> scene.id,
   scene_schema |-> scene.schema,
   step1 |-> to_spec_step(chain.step1, step1_pat),
   step2 |-> to_spec_step(chain.step2, step2_pat),
   seed |-> scene.slots[1],
   props |-> [p1 |-> scene.slots[1], p2 |-> scene.slots[2], p3 |-> scene.slots[3]]]

\* loop_has_next running the range to its end inclusive
loop_has_next_inclusive(started, budget) == started <= budget

\* `for _ in 0..max_tries`: the range has a next element
loop_has_next(started, budget) == started < budget

\* a `continue`: the iteration is used up, the loop goes on
Reject(reason) ==
  /\ pc' = "attempting"
  /\ frame' = [frame EXCEPT !.tries = @ + 1, !.last_reject = reason]
  /\ UNCHANGED <<difficulty, max_tries, spec, eval_out, valid_out, scan, reference_answer_zh>>
  /\ UNCHANGED store_vars

\* the `return Ok(spec)`: the locals are dropped
Return(sp) ==
  /\ pc' = "succeeded"
  /\ frame' = NoFrame
  /\ spec' = sp
  /\ UNCHANGED <<difficulty, max_tries, eval_out, valid_out, scan, reference_answer_zh>>
  /\ UNCHANGED store_vars

\* One iteration of `for _ in 0..max_tries`; the draws of `choose(&mut rng)` are the
\* existentially chosen indices.
Iterate ==
  /\ pc = "attempting"
  /\ loop_has_next(frame.tries, max_tries)
  /\ \E ci \in 1..Len(CHAIN_PATTERNS) :
       LET chain == CHAIN_PATTERNS[ci]
           level == frame.target_level_max
           step1_pool == pattern_pool(chain.step1, level)
           step2_pool == pattern_pool(chain.step2, level)
           scene_pool == scene_pool_of(chain.scene_schema)
       IN IF ~chain_matches_difficulty(chain, level) THEN Reject("chain")
          ELSE IF step1_pool = <<>> \/ step2_pool = <<>> THEN Reject("pattern_pool")
          ELSE \E i1 \in 1..Len(step1_pool), i2 \in 1..Len(step2_pool) :
            IF scene_pool = <<>> THEN Reject("scene_pool")
            ELSE \E si \in 1..Len(scene_pool) :
              LET step1_pat == step1_pool[i1]
                  step2_pat == step2_pool[i2]
                  scene == scene_pool[si]
                  p1 == scene.slots[1]
                  p2 == scene.slots[2]
                  p3 == scene.slots[3]
                  seed_text == p1
              IN IF ~scene_matches_difficulty(p1, p2, p3, level) THEN Reject("scene")
                 ELSE IF contains_any(seed_text, banned_tokens(step1_pat, step2_pat))
                   THEN Reject("banned_seed")
                 ELSE Return(make_spec(chain, step1_pat, step2_pat, scene))

\* the loop ends without a return:
\* Err("SAMPLE_COREPLUSCORE_SPEC: failed to sample a valid SPEC within max_tries")
Exhaust ==
  /\ pc = "attempting"
  /\ ~loop_has_next(frame.tries, max_tries)
  /\ pc' = "exhausted"
  /\ frame' = NoFrame
  /\ UNCHANGED <<difficulty, max_tries, spec, eval_out, valid_out, scan, reference_answer_zh>>
  /\ UNCHANGED store_vars

\* the call sample_core_plus_core_spec(difficulty, max_tries), up to the loop
InitSampler(ds, budgets) ==
  /\ pc = "attempting"
  /\ difficulty \in ds
  /\ max_tries \in budgets
  /\ frame = [target_level_max |-> difficulty_to_target_level(difficulty),
              tries |-> 0, last_reject |-> "none"]
  /\ spec = NoSpec
  /\ eval_out = NoCall
  /\ valid_out = NoCall
  /\ reference_answer_zh = NoCall
  /\ StoreIdle
  /\ scan = NoScan

Init == InitSampler(Difficulties, Budgets)

Next == Iterate \/ Exhaust

\* the sampler, for every difficulty "hsk1".."hsk6" and every budget 0..MaxTries
Spec == Init /\ [][Next]_vars

----------------------------------------------------------------------------
(* The callers' use of a sampled spec: scoring a learner's answer and      *)
(* validating a generated item.  The answers and items are drawn from      *)
(* variations of the canonical reference answer of the spec.               *)

\* the two rendered sentences of build_expected_reference_answer
reference_sentence1(sp) ==
  trim_sentence_trailing_punct(render_template_ab(sp.step1.pattern_tpl, sp.props.p1, sp.props.p2))

reference_sentence2(sp) ==
  trim_sentence_trailing_punct(render_template_ab(sp.step2.pattern_tpl, sp.props.p2, sp.props.p3))

\* every strong marker of step 2, then every strong marker of step 1, run together
markers_only(sp) ==
  LET RECURSIVE cat(_)
      cat(ms) == IF ms = <<>> THEN <<>> ELSE Head(ms) \o cat(Tail(ms))
  IN cat(sp.step2.strong_markers) \o cat(sp.step1.strong_markers)

\* s with a space put in after its first k characters
with_space_at(s, k) ==
  IF k > Len(s) THEN s ELSE SubSeq(s, 1, k) \o <<32>> \o SubSeq(s, k + 1, Len(s))

\* the two patterns filled with propositions that are not the scene's (x, y, z)
other_props_answer(sp) ==
  trim_sentence_trailing_punct(render_template_ab(sp.step1.pattern_tpl, <<120>>, <<121>>))
    \o <<FullStop>>
    \o trim_sentence_trailing_punct(render_template_ab(sp.step2.pattern_tpl, <<121>>, <<122>>))

\* the learner answers tried on a spec
AnswerVariants(sp) ==
  LET ref == build_expected_reference_answer(sp)
      s1 == reference_sentence1(sp)
      s2 == reference_sentence2(sp)
  IN { ref,                                          \* the canonical answer
       <<>>, <<12288, 10, 9>>,                       \* nothing but whitespace
       <<32>> \o ref \o <<FullStop, 10>>,            \* padded, with a final full stop
       s1 \o <<65281>> \o s2,                        \* the sentences separated by an exclamation mark
       s1,                                           \* one sentence
       s1 \o <<65292>> \o s2,                        \* the sentences joined by a comma
       other_props_answer(sp),                       \* the patterns filled with other content
       ref \o <<FullStop>> \o s2,                    \* three sentences
       s2 \o <<FullStop>> \o s1,                     \* the sentences swapped
       sp.props.p2 \o <<FullStop>> \o sp.props.p3,   \* no connector, no seed
       markers_only(sp),                             \* connectors only
       <<FullStop>> }                                \* punctuation only

\* the largest offset at which a space is put into a sentence of a generated reference
MaxInsertAt == 1

\* the generated items tried on a spec
ItemVariants(sp) ==
  LET ref == build_expected_reference_answer(sp)
      s1 == reference_sentence1(sp)
      s2 == reference_sentence2(sp)
      seeds == { <<32>> \o sp.seed \o <<10>>, sp.seed \o <<120>>, <<>> }
      refs == { ref \o <<FullStop>>,
                s1 \o <<65311, 32>> \o s2,
                s1,
                ref \o <<FullStop>> \o s2,
                s2 \o <<FullStop>> \o s1,
                s1 \o <<FullStop>> \o s2 \o <<120>> }
              \cup { with_space_at(s1, k) \o <<FullStop>> \o s2 : k \in 1..MaxInsertAt }
              \cup { s1 \o <<FullStop>> \o with_space_at(s2, k) : k \in 1..MaxInsertAt }
  IN { [seed_zh |-> sp.seed, reference_answer_zh |-> ref] }
       \cup { [seed_zh |-> sd, reference_answer_zh |-> ref] : sd \in seeds }
       \cup { [seed_zh |-> sp.seed, reference_answer_zh |-> r] : r \in refs }

\* the caller scores an answer against the sampled spec
Evaluate ==
  /\ pc = "succeeded"
  /\ \E answer \in AnswerVariants(spec) :
       eval_out' = [called |-> TRUE, answer |-> answer,
                    result |-> evaluate_core_plus_core_answer(spec, answer)]
  /\ pc' = "scored"
  /\ UNCHANGED <<difficulty, max_tries, frame, spec, valid_out, scan, reference_answer_zh>>
  /\ UNCHANGED store_vars

\* the caller validates a generated item against the sampled spec
Validate ==
  /\ pc = "succeeded"
  /\ \E item \in ItemVariants(spec) :
       valid_out' = [called |-> TRUE, item |-> item,
                     result |-> validate_generated_item(spec, item)]
  /\ pc' = "validated"
  /\ UNCHANGED <<difficulty, max_tries, frame, spec, eval_out, scan, reference_answer_zh>>
  /\ UNCHANGED store_vars

InitUse == InitSampler(LevelDifficulties, {1})

NextScore == Iterate \/ Exhaust \/ Evaluate

NextValidate == Iterate \/ Exhaust \/ Validate

\* one draw of the sampler for each target level, then the scoring of an answer against the
\* spec it returned
SpecScore == InitUse /\ [][NextScore]_vars

\* one draw of the sampler for each target level, then the validation of a generated item
\* against the spec it returned
SpecValidate == InitUse /\ [][NextValidate]_vars

----------------------------------------------------------------------------
(* evaluate_core_plus_core_answer as a function of any spec and any text:  *)
(* the specs are built from three small patterns over the letters a and b, *)
(* the answers are all the texts up to a length over a small alphabet.     *)

\* the longest answer text
MaxAnswerLen == 4

\* 'a', 'b', the ideographic comma, the ideographic full stop, the ideographic space
EvalAlphabet == {97, 98, 65292, 12290, 12288}

\* all the texts of at most n characters
Texts(n) ==
  UNION {[1..k -> EvalAlphabet] : k \in 0..n}

\* patterns of the catalog's shapes: a leading marker, a marker after the comma, no marker
EvalPatterns ==
  { \* a{A}，{B}   strong a   ^a.+，.+$
    [id |-> "eval_pat__a_first", level |-> 1, kind |-> "SINGLE",
     tpl |-> <<97, 123, 65, 125, 65292, 123, 66, 125>>, markers_zh |-> <<97, 8230>>,
     strong_markers |-> <<<<97>>>>, weak_markers |-> <<>>, seed_banned |-> <<<<97>>>>,
     check_regex |-> <<94, 97, 46, 43, 65292, 46, 43, 36>>],
    \* {A}，b{B}   strong b   ^.+，b.+$
    [id |-> "eval_pat__b_second", level |-> 1, kind |-> "SINGLE",
     tpl |-> <<123, 65, 125, 65292, 98, 123, 66, 125>>, markers_zh |-> <<98, 8230>>,
     strong_markers |-> <<<<98>>>>, weak_markers |-> <<>>, seed_banned |-> <<<<98>>>>,
     check_regex |-> <<94, 46, 43, 65292, 98, 46, 43, 36>>],
    \* {A}，{B}   no strong marker   ^.+，.+$
    [id |-> "eval_pat__plain", level |-> 1, kind |-> "SINGLE",
     tpl |-> <<123, 65, 125, 65292, 123, 66, 125>>, markers_zh |-> <<8230>>,
     strong_markers |-> <<>>, weak_markers |-> <<>>, seed_banned |-> <<>>,
     check_regex |-> <<94, 46, 43, 65292, 46, 43, 36>>] }

EvalChain ==
  [id |-> "eval_chain", step1 |-> REL_CAUSE, step2 |-> REL_RESULT, scene_schema |-> "eval_schema"]

\* scenes whose P1, the seed, is empty, "b", "b" with a final full stop, or "c", which no
\* answer contains
EvalScenes ==
  { [id |-> "eval_scene", schema |-> "eval_schema", slots |-> <<p1, <<97>>, <<98>>>>] :
      p1 \in {<<>>, <<98>>, <<98, 12290>>, <<99>>} }

EvalSpecs ==
  { make_spec(EvalChain, p1, p2, sc) : p1 \in EvalPatterns, p2 \in EvalPatterns, sc \in EvalScenes }

\* the caller scores any text against the spec it holds
EvaluateText ==
  /\ pc = "stored"
  /\ \E answer \in Texts(MaxAnswerLen) :
       eval_out' = [called |-> TRUE, answer |-> answer,
                    result |-> evaluate_core_plus_core_answer(spec, answer)]
  /\ pc' = "scored"
  /\ UNCHANGED <<difficulty, max_tries, frame, spec, valid_out, scan, reference_answer_zh>>
  /\ UNCHANGED store_vars

InitEval ==
  /\ pc = "stored"
  /\ spec \in EvalSpecs
  /\ difficulty = <<>>
  /\ max_tries = 0
  /\ frame = NoFrame
  /\ eval_out = NoCall
  /\ valid_out = NoCall
  /\ reference_answer_zh = NoCall
  /\ StoreIdle
  /\ scan = NoScan

SpecEval == InitEval /\ [][EvaluateText]_vars

----------------------------------------------------------------------------
(* simple_regex_like_match step by step: the call, the passes of its loop  *)
(* over the literal chunks, and its return.                                *)

\* the longest text handed to the matcher
MaxTextLen == 5

\* 'a', 'b', 'c'
ScanAlphabet == {97, 98, 99}

\* all the texts of at most n characters
ScanTexts(n) ==
  UNION {[1..k -> ScanAlphabet] : k \in 0..n}

\* patterns of the catalog's subset: ^ and $, literal chunks, `.+`
ScanPatterns ==
  {
    <<94, 97, 46, 43, 98, 46, 43, 36>>,   \* ^a.+b.+$
    <<94, 97, 98, 46, 43, 98, 46, 43, 36>>,   \* ^ab.+b.+$
    <<94, 97, 46, 43, 98, 99, 46, 43, 36>>,   \* ^a.+bc.+$
    <<94, 97, 46, 43, 98, 36>>,   \* ^a.+b$
    <<94, 46, 43, 97, 46, 43, 36>>,   \* ^.+a.+$
    <<94, 46, 43, 98, 36>>,   \* ^.+b$
    <<97, 46, 43, 98>>,   \* a.+b
    <<46, 43>>,   \* .+
    <<94, 97, 36>>,   \* ^a$
    <<94, 46, 43, 97, 46, 43, 98, 46, 43, 36>>,   \* ^.+a.+b.+$
    <<94, 97, 46, 43, 46, 43, 98, 36>>    \* ^a.+.+b$
  }

\* the patterns without a literal: at most n wildcards between the optional anchors
RECURSIVE Wildcards(_)
Wildcards(n) == IF n = 0 THEN <<>> ELSE <<46, 43>> \o Wildcards(n - 1)

\* the most wildcards in a pattern without a literal
MaxWildcards == 2

NoLiteralPatterns(n) ==
  {pre \o Wildcards(k) \o post : pre \in {<<>>, <<94>>}, post \in {<<>>, <<36>>}, k \in 0..n}

\* PATTERNS_CAUSE's ^因为.+，所以.+$
CausePairRegex == <<94, 22240, 20026, 46, 43, 65292, 25152, 20197, 46, 43, 36>>


CausePairTexts ==
  {
    <<22240, 20026, 19979, 38632, 65292, 25152, 20197, 25105, 27809, 21435>>,   \* 因为下雨，所以我没去
    <<19979, 38632, 25152, 20197, 25105, 27809, 21435>>,   \* 下雨所以我没去
    <<22240, 20026, 19979, 38632>>,   \* 因为下雨
    <<22240, 20026, 65292, 25152, 20197>>,   \* 因为，所以
    <<19979, 38632, 22240, 20026, 65292, 25152, 20197, 25105, 27809, 21435>>,   \* 下雨因为，所以我没去
    <<22240, 20026, 19979, 38632, 25152, 20197, 25105, 27809, 21435>>    \* 因为下雨所以我没去
  }

\* lines 360-372: the anchors, the wildcards at the ends, the chunks
pattern_shape(pattern) ==
  LET p0 == trim(pattern)
      anchored_start == starts_with(p0, <<94>>)
      anchored_end == ends_with(p0, <<36>>)
      p1 == IF anchored_start THEN slice_from(p0, 1) ELSE p0
      p == IF anchored_end /\ p1 # <<>> THEN SubSeq(p1, 1, Len(p1) - 1) ELSE p1
  IN [anchored_start |-> anchored_start, anchored_end |-> anchored_end,
      starts_with_wild |-> starts_with(p, <<46, 43>>),
      ends_with_wild |-> ends_with(p, <<46, 43>>),
      parts |-> split(p, <<46, 43>>)]

\* locate_part searching forward also for the first chunk of a pattern anchored at the start
locate_part_anywhere(text, search_from, part, at_cursor_only) ==
  LET found_at == find(slice_from(text, search_from), part) IN
    IF found_at = NotFound THEN NotFound ELSE search_from + found_at

\* locate_part giving the offset within the rest of the text, not within the text
locate_part_relative(text, search_from, part, at_cursor_only) ==
  IF at_cursor_only THEN
    IF starts_with(slice_from(text, search_from), part) THEN search_from ELSE NotFound
  ELSE
    find(slice_from(text, search_from), part)

\* where the chunk is matched (NotFound if nowhere): at the cursor itself for the first
\* chunk of a pattern anchored at the start, else at its first occurrence from the cursor on
locate_part(text, search_from, part, at_cursor_only) ==
  IF at_cursor_only THEN
    IF starts_with(slice_from(text, search_from), part) THEN search_from ELSE NotFound
  ELSE
    LET found_at == find(slice_from(text, search_from), part) IN
      IF found_at = NotFound THEN NotFound ELSE search_from + found_at

\* end_verdict without the comparison of the cursor with the end of the text
end_verdict_unchecked(anchored_end, ends_with_wild, last_match_end, text) == TRUE

\* lines 408-411
end_verdict(anchored_end, ends_with_wild, last_match_end, text) ==
  IF anchored_end /\ ~ends_with_wild THEN last_match_end = Len(text) ELSE TRUE

\* no_literal_verdict accepting every text
no_literal_verdict_any(text) == TRUE

\* line 375: the verdict when every chunk is empty
no_literal_verdict(text) == text # <<>>

\* lines 360-380: up to the loop, or the return when every chunk is empty
Prepare ==
  /\ pc = "matching"
  /\ scan.status = "called"
  /\ LET sh == pattern_shape(scan.pattern)
         all_empty == \A i \in 1..Len(sh.parts) : sh.parts[i] = <<>>
     IN scan' = [status |-> IF all_empty THEN "returned" ELSE "scanning",
                 pattern |-> scan.pattern, text |-> scan.text,
                 anchored_start |-> sh.anchored_start, anchored_end |-> sh.anchored_end,
                 starts_with_wild |-> sh.starts_with_wild, ends_with_wild |-> sh.ends_with_wild,
                 parts |-> sh.parts, k |-> 1,
                 search_from |-> 0, first_literal_seen |-> FALSE, last_match_end |-> 0,
                 found |-> <<>>,
                 result |-> IF all_empty THEN no_literal_verdict(scan.text) ELSE FALSE]
  /\ UNCHANGED <<pc, difficulty, max_tries, frame, spec, eval_out, valid_out, reference_answer_zh>>
  /\ UNCHANGED store_vars

\* lines 382-406: one pass of `for part in &parts`
ScanPart ==
  /\ pc = "matching"
  /\ scan.status = "scanning"
  /\ scan.k <= Len(scan.parts)
  /\ LET part == scan.parts[scan.k]
         at_cursor_only == ~scan.first_literal_seen /\ scan.anchored_start /\ ~scan.starts_with_wild
         at == locate_part(scan.text, scan.search_from, part, at_cursor_only)
     IN IF part = <<>> THEN scan' = [scan EXCEPT !.k = @ + 1]
        ELSE IF at = NotFound THEN
          scan' = [scan EXCEPT !.status = "returned", !.first_literal_seen = TRUE, !.result = FALSE]
        ELSE
          scan' = [scan EXCEPT !.k = @ + 1, !.first_literal_seen = TRUE,
                               !.last_match_end = at + Len(part),
                               !.search_from = at + Len(part),
                               !.found = Append(@, [at |-> at, end |-> at + Len(part)])]
  /\ UNCHANGED <<pc, difficulty, max_tries, frame, spec, eval_out, valid_out, reference_answer_zh>>
  /\ UNCHANGED store_vars

\* lines 408-411: the loop is over
Finish ==
  /\ pc = "matching"
  /\ scan.status = "scanning"
  /\ scan.k > Len(scan.parts)
  /\ scan' = [scan EXCEPT !.status = "returned",
                          !.result = end_verdict(scan.anchored_end, scan.ends_with_wild,
                                                 scan.last_match_end, scan.text)]
  /\ UNCHANGED <<pc, difficulty, max_tries, frame, spec, eval_out, valid_out, reference_answer_zh>>
  /\ UNCHANGED store_vars

InitMatch ==
  /\ pc = "matching"
  /\ scan \in {[status |-> "called", pattern |-> p, text |-> t] :
                 p \in ScanPatterns \cup NoLiteralPatterns(MaxWildcards),
                 t \in ScanTexts(MaxTextLen)}
              \cup {[status |-> "called", pattern |-> CausePairRegex, text |-> t] :
                      t \in CausePairTexts}
  /\ difficulty = <<>>
  /\ max_tries = 0
  /\ frame = NoFrame
  /\ spec = NoSpec
  /\ eval_out = NoCall
  /\ valid_out = NoCall
  /\ reference_answer_zh = NoCall
  /\ StoreIdle

NextMatch == Prepare \/ ScanPart \/ Finish

SpecMatch == InitMatch /\ [][NextMatch]_vars

----------------------------------------------------------------------------
(* build_expected_reference_answer: on the spec the sampler returned, as   *)
(* generate_challenge_freeform calls it, and as a function of any spec,    *)
(* with propositions that carry punctuation and spaces.                    *)

\* the longest P2 and P3
MaxPropLen == 2

\* 'x', the ideographic full stop, the fullwidth exclamation mark, the space
PropAlphabet == {120, 12290, 65281, 32}

\* all the texts of at most n characters
PropTexts(n) ==
  UNION {[1..k -> PropAlphabet] : k \in 0..n}

\* a pattern whose template ends with {B} and one whose template ends with {A}
RenderPatterns ==
  { \* {A}，{B}   ^.+，.+$
    [id |-> "render_pat__a_b", level |-> 1, kind |-> "SINGLE",
     tpl |-> <<123, 65, 125, 65292, 123, 66, 125>>, markers_zh |-> <<8230>>,
     strong_markers |-> <<>>, weak_markers |-> <<>>, seed_banned |-> <<>>,
     check_regex |-> <<94, 46, 43, 65292, 46, 43, 36>>],
    \* {B}，a{A}   strong a   ^.+，a.+$
    [id |-> "render_pat__b_a", level |-> 1, kind |-> "SINGLE",
     tpl |-> <<123, 66, 125, 65292, 97, 123, 65, 125>>, markers_zh |-> <<8230, 97>>,
     strong_markers |-> <<<<97>>>>, weak_markers |-> <<>>, seed_banned |-> <<>>,
     check_regex |-> <<94, 46, 43, 65292, 97, 46, 43, 36>>] }

\* scenes whose P1 is "x" or "x！" and whose P2 and P3 are any texts
RenderScenes ==
  { [id |-> "render_scene", schema |-> "eval_schema", slots |-> <<p1, p2, p3>>] :
      p1 \in {<<120>>, <<120, 65281>>},
      p2 \in PropTexts(MaxPropLen), p3 \in PropTexts(MaxPropLen) }

RenderSpecs ==
  { make_spec(EvalChain, p1, p2, sc) :
      p1 \in RenderPatterns, p2 \in RenderPatterns, sc \in RenderScenes }

\* `let reference_answer_zh = build_expected_reference_answer(&spec);`
Render ==
  /\ pc \in {"succeeded", "stored"}
  /\ reference_answer_zh' = [called |-> TRUE, text |-> build_expected_reference_answer(spec)]
  /\ pc' = "rendered"
  /\ UNCHANGED <<difficulty, max_tries, frame, spec, eval_out, valid_out, scan>>
  /\ UNCHANGED store_vars

InitRender ==
  /\ pc = "stored"
  /\ spec \in RenderSpecs
  /\ difficulty = <<>>
  /\ max_tries = 0
  /\ frame = NoFrame
  /\ eval_out = NoCall
  /\ valid_out = NoCall
  /\ reference_answer_zh = NoCall
  /\ StoreIdle
  /\ scan = NoScan

\* the renderer on any spec
SpecRender == InitRender /\ [][Render]_vars

NextReference == Iterate \/ Exhaust \/ Render

\* the sampler, then the renderer on the spec it returned
SpecReference == InitUse /\ [][NextReference]_vars

----------------------------------------------------------------------------
(* difficulty_to_target_level as a function of any difficulty string.      *)

\* the most digits after "hsk"
MaxDigits == 3

\* '0', '2', '3', '5', '6'
LevelDigits == {48, 50, 51, 53, 54}

\* "hsk" followed by at most n digits
HskNumbers(n) ==
  {<<104, 115, 107>> \o ds : ds \in UNION {[1..k -> LevelDigits] : k \in 0..n}}

\* other spellings, and strings that are no "hsk<N>"
OtherDifficulties ==
  {
    <<>>,   \* ""
    <<104, 115, 107>>,   \* "hsk"
    <<72, 83, 75, 51>>,   \* "HSK3"
    <<72, 115, 107, 53>>,   \* "Hsk5"
    <<32, 104, 115, 107, 49, 32>>,   \* " hsk1 "
    <<104, 115, 107, 32, 51>>,   \* "hsk 3"
    <<104, 115, 107, 53, 97>>,   \* "hsk5a"
    <<53>>,   \* "5"
    <<97, 98, 99>>,   \* "abc"
    <<104, 115, 107, 45, 49>>,   \* "hsk-1"
    <<108, 101, 118, 101, 108, 51>>,   \* "level3"
    <<104, 115, 107, 107, 51>>    \* "hskk3"
  }

\* `let target_level_max = difficulty_to_target_level(difficulty);`
ParseLevel ==
  /\ pc = "called"
  /\ frame' = [target_level_max |-> difficulty_to_target_level(difficulty),
               tries |-> 0, last_reject |-> "none"]
  /\ pc' = "attempting"
  /\ UNCHANGED <<difficulty, max_tries, spec, eval_out, valid_out, scan, reference_answer_zh>>
  /\ UNCHANGED store_vars

\* the call sample_core_plus_core_spec(difficulty, 0)
InitLevel ==
  /\ pc = "called"
  /\ difficulty \in HskNumbers(MaxDigits) \cup OtherDifficulties
  /\ max_tries = 0
  /\ frame = NoFrame
  /\ spec = NoSpec
  /\ eval_out = NoCall
  /\ valid_out = NoCall
  /\ reference_answer_zh = NoCall
  /\ StoreIdle
  /\ scan = NoScan

NextLevel == ParseLevel \/ Exhaust

SpecLevel == InitLevel /\ [][NextLevel]_vars

----------------------------------------------------------------------------
(* The trials of the sampling property: every difficulty "hsk1".."hsk6"    *)
(* with a budget of one iteration, and "hsk1", the difficulty whose gates   *)
(* reject most, with the full budget of the trials.                        *)

\* the retry budget of the trials
TrialBudget == 200

InitTrial ==
  \/ InitSampler(Difficulties, {1})
  \/ InitSampler({<<104, 115, 107, 49>>}, {TrialBudget})

SpecTrial == InitTrial /\ [][Next]_vars

----------------------------------------------------------------------------
(* The challenge store of AppState (state.rs) under concurrent tasks.      *)
(* Every task runs one call; a step of a task is the code between two      *)
(* lock requests (the .await of read() or write()), which is where tasks    *)
(* interleave. A guard lives as long as Rust keeps it: a `let` guard to the *)
(* end of the function, a temporary guard in the tail expression of a block *)
(* to the end of the statement that encloses the block. state.rs binds      *)
(* `gen` as a variable (line 110), which is a reserved word from edition    *)
(* 2024 on, so the crate is built with an earlier edition, in which the     *)
(* scrutinee of an `if let` keeps its temporaries to the end of the whole   *)
(* `if let`: the guards of lines 184 and 198 are held over the body.        *)
(* A lock grants a request when no conflicting guard is held.               *)

\* the number of concurrent tasks
MaxTasks == 2

Tasks == 1..MaxTasks

NoId == "none"

NoChallenge == [id |-> NoId, difficulty |-> NoId]

\* seeds.rs, seed_challenges(): the challenges AppState::new() starts with
seed_challenges ==
  <<[id |-> "c3001", difficulty |-> "hsk3"], [id |-> "c3002", difficulty |-> "hsk2"]>>

\* a challenge that is not in the store at the start
NewChallenge == [id |-> "x1", difficulty |-> "hsk3"]

\* Uuid::new_v4(): an id nobody else has; a task draws at most one
new_uuid(t) == "uuid-" \o ToString(t)

\* the calls a task may run
Calls ==
  {[op |-> "choose_challenge", difficulty |-> d, c |-> NoChallenge, id |-> NoId] :
     d \in {"hsk1", "hsk3"}}
  \cup {[op |-> "insert_challenge", difficulty |-> NoId, c |-> NewChallenge, id |-> NoId]}
  \cup {[op |-> "ensure_present", difficulty |-> NoId, c |-> ch, id |-> NoId] :
          ch \in {NewChallenge, seed_challenges[1]}}
  \cup {[op |-> "get_challenge", difficulty |-> NoId, c |-> NoChallenge, id |-> i] :
          i \in {"c3001", "x1"}}

\* where a call starts
entry_point(op) ==
  CASE op = "choose_challenge" -> "generate"
    [] op = "insert_challenge" -> "insert_by_id"
    [] op = "ensure_present" -> "check"
    [] op = "get_challenge" -> "get"

\* HashMap::insert / entry(k).or_default() on a map kept as a function on its keys
map_insert(map, k, v) ==
  [x \in DOMAIN map \cup {k} |-> IF x = k THEN v ELSE map[x]]

\* by_diff.entry(diff).or_default().push(id)
push_id(map, diff, id) ==
  map_insert(map, diff, IF diff \in DOMAIN map THEN Append(map[diff], id) ELSE <<id>>)

\* how often an id is listed
Count(ids, id) == Cardinality({i \in 1..Len(ids) : ids[i] = id})

\* lines 187-196: the id served from a non-empty pool
choose_existing(ids, last) ==
  IF Len(ids) = 1 THEN ids[1]
  ELSE IF last # NoId THEN
    LET others == {i \in 1..Len(ids) : ids[i] # last} IN
      IF others = {} THEN ids[1]
      ELSE ids[CHOOSE i \in others : \A j \in others : i <= j]
  ELSE ids[1]

Unlocked == [writer |-> 0, readers |-> {}]

\* RwLock::read() is granted
can_read(lock) == locks[lock].writer = 0

\* RwLock::write() is granted
can_write(lock) == locks[lock].writer = 0 /\ locks[lock].readers = {}

\* the lock request a task is at: which lock, and whether for writing
request(t) ==
  CASE tasks[t].pc = "pool" -> [lock |-> "by_diff", write |-> FALSE]
    [] tasks[t].pc = "pool_last" -> [lock |-> "last_by_diff", write |-> FALSE]
    [] tasks[t].pc = "pool_get" -> [lock |-> "by_id", write |-> FALSE]
    [] tasks[t].pc = "pool_set_last" -> [lock |-> "last_by_diff", write |-> TRUE]
    [] tasks[t].pc = "insert_by_id" -> [lock |-> "by_id", write |-> TRUE]
    [] tasks[t].pc = "insert_by_diff" -> [lock |-> "by_diff", write |-> TRUE]
    [] tasks[t].pc = "set_last" -> [lock |-> "last_by_diff", write |-> TRUE]
    [] tasks[t].pc = "check" -> [lock |-> "by_id", write |-> FALSE]
    [] tasks[t].pc = "get" -> [lock |-> "by_id", write |-> FALSE]
    [] OTHER -> [lock |-> NoId, write |-> FALSE]

\* the task is not kept waiting by a lock
granted(t) ==
  LET r == request(t) IN
    \/ r.lock = NoId
    \/ IF r.write THEN can_write(r.lock) ELSE can_read(r.lock)

\* the locks a task holds a guard of
held(t) == {l \in DOMAIN locks : locks[l].writer = t \/ t \in locks[l].readers}

\* all guards of a task are dropped
drop_all(t) ==
  [l \in DOMAIN locks |-> [writer |-> IF locks[l].writer = t THEN 0 ELSE locks[l].writer,
                           readers |-> locks[l].readers \ {t}]]

\* lines 158-180: the generation by OpenAI, which succeeds or fails
Generate(t) ==
  /\ tasks[t].pc = "generate"
  /\ \/ /\ openai
        /\ tasks' = [tasks EXCEPT ![t].pc = "insert_by_id",
                                  ![t].c = [id |-> new_uuid(t),
                                            difficulty |-> tasks[t].difficulty],
                                  ![t].result = "openai_generated_new"]
     \/ tasks' = [tasks EXCEPT ![t].pc = "pool"]
  /\ UNCHANGED <<by_id, by_diff, last_by_diff, locks, openai>>
  /\ UNCHANGED core_vars

\* line 184-185: the pool of the difficulty is read; the guard stays when there is one
Pool(t) ==
  /\ tasks[t].pc = "pool"
  /\ granted(t)
  /\ LET d == tasks[t].difficulty IN
       IF d \in DOMAIN by_diff /\ by_diff[d] # <<>>
       THEN /\ locks' = [locks EXCEPT !.by_diff.readers = @ \cup {t}]
            /\ tasks' = [tasks EXCEPT ![t].pc = "pool_last", ![t].ids = by_diff[d]]
       ELSE /\ tasks' = [tasks EXCEPT ![t].pc = "fallback"]
            /\ UNCHANGED locks
  /\ UNCHANGED <<by_id, by_diff, last_by_diff, openai>>
  /\ UNCHANGED core_vars

\* lines 186-196: the id served last is read and the next one is chosen
PoolLast(t) ==
  /\ tasks[t].pc = "pool_last"
  /\ granted(t)
  /\ LET d == tasks[t].difficulty
         last == IF d \in DOMAIN last_by_diff THEN last_by_diff[d] ELSE NoId
     IN tasks' = [tasks EXCEPT ![t].pc = "pool_get",
                               ![t].chosen_id = choose_existing(tasks[t].ids, last)]
  /\ UNCHANGED <<by_id, by_diff, last_by_diff, locks, openai>>
  /\ UNCHANGED core_vars

\* line 198: the chosen challenge is read; the guard stays when it is there
PoolGet(t) ==
  /\ tasks[t].pc = "pool_get"
  /\ granted(t)
  /\ IF tasks[t].chosen_id \in DOMAIN by_id
     THEN /\ locks' = [locks EXCEPT !.by_id.readers = @ \cup {t}]
          /\ tasks' = [tasks EXCEPT ![t].pc = "pool_set_last",
                                    ![t].c = by_id[tasks[t].chosen_id]]
     ELSE /\ locks' = drop_all(t)
          /\ tasks' = [tasks EXCEPT ![t].pc = "fallback"]
  /\ UNCHANGED <<by_id, by_diff, last_by_diff, openai>>
  /\ UNCHANGED core_vars

\* lines 199-204: the served id is recorded and the call returns
PoolSetLast(t) ==
  /\ tasks[t].pc = "pool_set_last"
  /\ granted(t)
  /\ last_by_diff' = map_insert(last_by_diff, tasks[t].difficulty, tasks[t].chosen_id)
  /\ locks' = drop_all(t)
  /\ tasks' = [tasks EXCEPT ![t].pc = "returned", ![t].result = "existing_pool"]
  /\ UNCHANGED <<by_id, by_diff, openai>>
  /\ UNCHANGED core_vars

\* lines 210-211: the hard fallback challenge is built
Fallback(t) ==
  /\ tasks[t].pc = "fallback"
  /\ tasks' = [tasks EXCEPT ![t].pc = "insert_by_id",
                            ![t].c = [id |-> new_uuid(t),
                                      difficulty |-> tasks[t].difficulty],
                            ![t].result = "hard_fallback"]
  /\ UNCHANGED <<by_id, by_diff, last_by_diff, locks, openai>>
  /\ UNCHANGED core_vars

\* line 135 of insert_challenge: by_id is locked for writing
InsertById(t) ==
  /\ tasks[t].pc = "insert_by_id"
  /\ granted(t)
  /\ locks' = [locks EXCEPT !.by_id.writer = t]
  /\ tasks' = [tasks EXCEPT ![t].pc = "insert_by_diff"]
  /\ UNCHANGED <<by_id, by_diff, last_by_diff, openai>>
  /\ UNCHANGED core_vars

\* lines 136-141 of insert_challenge: by_diff is locked for writing, the challenge is
\* put into both maps and both guards are dropped
InsertByDiff(t) ==
  /\ tasks[t].pc = "insert_by_diff"
  /\ granted(t)
  /\ by_id' = map_insert(by_id, tasks[t].c.id, tasks[t].c)
  /\ by_diff' = push_id(by_diff, tasks[t].c.difficulty, tasks[t].c.id)
  /\ locks' = drop_all(t)
  /\ tasks' = [tasks EXCEPT ![t].pc = IF tasks[t].op = "choose_challenge"
                                      THEN "set_last" ELSE "returned"]
  /\ UNCHANGED <<last_by_diff, openai>>
  /\ UNCHANGED core_vars

\* lines 167-172 and 213-218: the new id is recorded as served last, the call returns
SetLast(t) ==
  /\ tasks[t].pc = "set_last"
  /\ granted(t)
  /\ last_by_diff' = map_insert(last_by_diff, tasks[t].difficulty, tasks[t].c.id)
  /\ tasks' = [tasks EXCEPT ![t].pc = "returned"]
  /\ UNCHANGED <<by_id, by_diff, locks, openai>>
  /\ UNCHANGED core_vars

\* lines 147-150 of ensure_present: the existence check, whose guard is dropped at the
\* end of the `let`, before insert_challenge is called
Check(t) ==
  /\ tasks[t].pc = "check"
  /\ granted(t)
  /\ LET exists == tasks[t].c.id \in DOMAIN by_id IN
       tasks' = [tasks EXCEPT ![t].pc = IF exists THEN "returned" ELSE "insert_by_id"]
  /\ UNCHANGED <<by_id, by_diff, last_by_diff, locks, openai>>
  /\ UNCHANGED core_vars

\* lines 223-226: get_challenge
Get(t) ==
  /\ tasks[t].pc = "get"
  /\ granted(t)
  /\ tasks' = [tasks EXCEPT ![t].pc = "returned",
                            ![t].c = IF tasks[t].id \in DOMAIN by_id
                                     THEN by_id[tasks[t].id] ELSE NoChallenge,
                            ![t].result = IF tasks[t].id \in DOMAIN by_id
                                          THEN "Some" ELSE "None"]
  /\ UNCHANGED <<by_id, by_diff, last_by_diff, locks, openai>>
  /\ UNCHANGED core_vars

\* AppState::new() without a config file, and the calls of the tasks
InitStore ==
  /\ by_id = [i \in {seed_challenges[k].id : k \in 1..Len(seed_challenges)} |->
                seed_challenges[CHOOSE k \in 1..Len(seed_challenges) :
                                  seed_challenges[k].id = i]]
  /\ by_diff = [d \in {seed_challenges[k].difficulty : k \in 1..Len(seed_challenges)} |->
                  SelectSeq([k \in 1..Len(seed_challenges) |-> seed_challenges[k].id],
                            LAMBDA i : \E k \in 1..Len(seed_challenges) :
                                         /\ seed_challenges[k].id = i
                                         /\ seed_challenges[k].difficulty = d)]
  /\ last_by_diff = <<>>
  /\ locks = [l \in {"by_id", "by_diff", "last_by_diff"} |-> Unlocked]
  /\ openai \in BOOLEAN
  /\ tasks \in [Tasks -> {[op |-> call.op, difficulty |-> call.difficulty, c |-> call.c,
                           id |-> call.id, pc |-> entry_point(call.op), ids |-> <<>>,
                           chosen_id |-> NoId, result |-> NoId] : call \in Calls}]
  /\ pc = "serving"
  /\ difficulty = <<>>
  /\ max_tries = 0
  /\ frame = NoFrame
  /\ spec = NoSpec
  /\ eval_out = NoCall
  /\ valid_out = NoCall
  /\ scan = NoScan
  /\ reference_answer_zh = NoCall

NextStore ==
  \E t \in Tasks :
    \/ Generate(t)
    \/ Pool(t)
    \/ PoolLast(t)
    \/ PoolGet(t)
    \/ PoolSetLast(t)
    \/ Fallback(t)
    \/ InsertById(t)
    \/ InsertByDiff(t)
    \/ SetLast(t)
    \/ Check(t)
    \/ Get(t)

SpecStore == InitStore /\ [][NextStore]_vars

----------------------------------------------------------------------------
(* Properties. *)

\* the target level of the call
TargetLevel == difficulty_to_target_level(difficulty)

\* the three patterns tables, as one set
AllPatterns ==
  LET all == PATTERNS_CAUSE \o PATTERNS_RESULT \o PATTERNS_CONDITION \o PATTERNS_CONTRAST
             \o PATTERNS_TIME \o PATTERNS_PURPOSE \o PATTERNS_ADDITION \o PATTERNS_CHOICE
  IN {all[i] : i \in 1..Len(all)}

\* the banned seed tokens of the catalog pattern a spec step was copied from
SeedBannedOf(step) ==
  LET p == CHOOSE q \in AllPatterns : q.id = step.pattern_id
  IN {p.seed_banned[i] : i \in 1..Len(p.seed_banned)}

\* the evaluate call scored the canonical reference answer of the sampled spec
ScoredReference ==
  pc = "scored" /\ eval_out.answer = build_expected_reference_answer(spec)

\* C1: for every spec the sampler returns, evaluate(spec, build_expected_reference_answer(spec))
\* has pass = true and score >= 60.
C1_RoundTrip ==
  ScoredReference => (eval_out.result.correct /\ eval_out.result.score >= 60)

\* the reference answer of a sampled spec was scored, with both bleed-through deductions
C1_Witness ==
  ScoredReference /\ eval_out.result.correct /\ eval_out.result.score = 84

\* the validate call was given the spec's seed and its canonical reference answer verbatim
ValidatedReference ==
  /\ pc = "validated"
  /\ valid_out.item.seed_zh = spec.seed
  /\ valid_out.item.reference_answer_zh = build_expected_reference_answer(spec)

\* C2: for every spec the sampler returns, validate_generated_item(spec, item) is Ok when
\* item.seed = spec.seed and item.reference_answer is the expected reference verbatim.
C2_ReferenceItemValid ==
  ValidatedReference => valid_out.result = Ok

\* the verbatim item of a spec with a two-marker step-1 pattern was validated
C2_Witness ==
  ValidatedReference /\ valid_out.result.ok /\ Len(spec.step1.strong_markers) = 2

\* the four conditions of section 4.4, stated on the item
SeedsEqual(sp, item) ==
  trim(item.seed_zh) = trim(sp.seed)

SplitsInTwo(item) ==
  split_two_sentences(item.reference_answer_zh).some

FragmentsEqualReference(sp, item) ==
  LET got == split_two_sentences(item.reference_answer_zh).value IN
    /\ normalize_for_compare(got[1]) = normalize_for_compare(reference_sentence1(sp))
    /\ normalize_for_compare(got[2]) = normalize_for_compare(reference_sentence2(sp))

HasAllStrongMarkers(step, sentence) ==
  \A i \in 1..Len(step.strong_markers) : contains(sentence, step.strong_markers[i])

SentencesConform(sp, item) ==
  LET got == split_two_sentences(item.reference_answer_zh).value IN
    /\ contains(got[1], sp.props.p1) /\ contains(got[1], sp.props.p2)
    /\ HasAllStrongMarkers(sp.step1, got[1])
    /\ simple_regex_like_match(sp.step1.check_regex, got[1])
    /\ contains(got[2], sp.props.p2) /\ contains(got[2], sp.props.p3)
    /\ HasAllStrongMarkers(sp.step2, got[2])
    /\ simple_regex_like_match(sp.step2.check_regex, got[2])

SchemaViolations ==
  {"seed_zh does not match SPEC.seed exactly",
   "reference_answer_zh must contain exactly two sentences",
   "Internal error: expected reference split failed",
   "reference_answer_zh did not apply templates exactly to P1/P2/P3",
   "reference sentence1 invalid",
   "reference sentence2 invalid"}

\* C3: validate_generated_item returns Ok only if (a) the trimmed seeds are equal, (b) the
\* reference answer splits into exactly two fragments, (c) each fragment equals, whitespace
\* removed, the corresponding fragment of the expected reference, and (d) each sentence has
\* its two propositions, its step's strong markers and its step's structure; otherwise it
\* returns one of the SchemaViolation messages.
C3_AllOrNothing ==
  pc = "validated" =>
    /\ valid_out.result.ok =>
         /\ SeedsEqual(spec, valid_out.item)
         /\ SplitsInTwo(valid_out.item)
         /\ FragmentsEqualReference(spec, valid_out.item)
         /\ SentencesConform(spec, valid_out.item)
    /\ valid_out.result = Ok \/ (~valid_out.result.ok /\ valid_out.result.err \in SchemaViolations)

\* an item that fails (d) alone was rejected
C3_Witness ==
  /\ pc = "validated"
  /\ ~valid_out.result.ok
  /\ SeedsEqual(spec, valid_out.item)
  /\ SplitsInTwo(valid_out.item)
  /\ FragmentsEqualReference(spec, valid_out.item)
  /\ ~SentencesConform(spec, valid_out.item)

\* C4: every spec the sampler returns has step1.level <= L and step2.level <= L, L the target level.
C4_LevelBound ==
  pc = "succeeded" =>
    (spec.step1.level <= TargetLevel /\ spec.step2.level <= TargetLevel)

\* a spec was returned at level 2 for a relation that has a level-3 pattern
C4_Witness ==
  /\ pc = "succeeded"
  /\ TargetLevel = 2
  /\ spec.step1.level = 2
  /\ \E i \in 1..Len(patterns_for_relation(spec.step1.relation)) :
        patterns_for_relation(spec.step1.relation)[i].level = 3

\* C5: the seed of every spec the sampler returns contains no banned seed token of the step 1
\* pattern and none of the step 2 pattern.
C5_NoBannedSeed ==
  pc = "succeeded" =>
    \A t \in SeedBannedOf(spec.step1) \cup SeedBannedOf(spec.step2) :
      t = <<>> \/ ~contains(spec.seed, t)

\* a draw was rejected for its seed and the loop went on
C5_Witness ==
  pc = "attempting" /\ frame.last_reject = "banned_seed" /\ frame.tries = 1

\* no token of the list occurs in the text
NoTokenOf(tokens, text) ==
  \A i \in 1..Len(tokens) : ~contains(text, tokens[i])

\* C6: a spec returned for target level 1 has each of P1, P2, P3 at most 12 characters, at most
\* 32 in total and no token of either banned tier; for level 2 at most 16 each, 44 in total and
\* no token of the level-3 tier; at level 3 the scene gate rejects nothing.
C6_ComplexityGate ==
  /\ pc = "succeeded" =>
       LET p == spec.props
           joined == p.p1 \o p.p2 \o p.p3
       IN /\ TargetLevel = 1 =>
               /\ Len(p.p1) <= 12 /\ Len(p.p2) <= 12 /\ Len(p.p3) <= 12
               /\ Len(p.p1) + Len(p.p2) + Len(p.p3) <= 32
               /\ NoTokenOf(level3_plus_tokens, joined)
               /\ NoTokenOf(level2_plus_tokens, joined)
          /\ TargetLevel = 2 =>
               /\ Len(p.p1) <= 16 /\ Len(p.p2) <= 16 /\ Len(p.p3) <= 16
               /\ Len(p.p1) + Len(p.p2) + Len(p.p3) <= 44
               /\ NoTokenOf(level3_plus_tokens, joined)
  /\ (pc = "attempting" /\ frame.last_reject = "scene") => frame.target_level_max <= 2

\* a level-1 spec was returned for a schema that has a scene with a token of the level-2 tier
C6_Witness ==
  /\ pc = "succeeded"
  /\ TargetLevel = 1
  /\ \E i \in 1..Len(SCENES) :
        /\ SCENES[i].schema = spec.scene_schema
        /\ ~NoTokenOf(level2_plus_tokens, SCENES[i].slots[1] \o SCENES[i].slots[2] \o SCENES[i].slots[3])

\* an iteration that returns a spec
Succeed == Iterate /\ pc' = "succeeded"

\* C7, as stated: sample(difficulty, 200) never returns SamplingExhausted.
C7_NeverExhausted ==
  max_tries = TrialBudget => pc # "exhausted"

\* C7, amended: for every difficulty "hsk1".."hsk6", at every iteration of the loop some draw
\* passes every gate, so sample(difficulty, 200) can return a spec at each of its iterations
\* (it is exhausted only if all of its draws are rejected).
C7_CanSucceed ==
  (pc = "attempting" /\ loop_has_next(frame.tries, max_tries)) => ENABLED Succeed

\* the last iteration of a trial of 200 was reached, every draw before it rejected
C7_Witness ==
  pc = "attempting" /\ max_tries = TrialBudget /\ frame.tries = TrialBudget - 1

\* C8: the sampler is a bounded retry loop: it starts at most max_tries iterations, each
\* rejection uses up one, it returns a spec at the first iteration that passes every gate,
\* returns SamplingExhausted when max_tries iterations were rejected (at once when
\* max_tries = 0), and it always ends in one of the two: while it has not returned it can
\* take a step, and every step but the return starts one of the max_tries iterations.
C8_States ==
  /\ pc \in {"attempting", "succeeded", "exhausted"}
  /\ pc = "attempting" => (frame.tries <= max_tries /\ ENABLED Next)
  /\ pc = "succeeded" <=> spec # NoSpec

C8_Steps ==
  /\ pc = "attempting"
  /\ \/ pc' = "attempting" /\ frame.tries < max_tries /\ frame'.tries = frame.tries + 1
        /\ frame'.last_reject \in {"chain", "pattern_pool", "scene_pool", "scene", "banned_seed"}
        /\ spec' = NoSpec
     \/ pc' = "succeeded" /\ frame.tries < max_tries
     \/ pc' = "exhausted" /\ frame.tries = max_tries /\ spec' = NoSpec

C8_BoundedRetryLoop ==
  /\ []C8_States
  /\ [][C8_Steps]_vars

\* the budget was used up by rejected draws
C8_Witness ==
  pc = "exhausted" /\ max_tries = MaxTries

\* C9: for every spec, an answer that is empty after trimming whitespace gets pass = false,
\* score = 0 and the empty-submission explanation alone.
C9_EmptyAnswer ==
  (pc = "scored" /\ \A i \in 1..Len(eval_out.answer) : IsWhitespace(eval_out.answer[i]))
    => eval_out.result = [correct |-> FALSE, score |-> 0, explanation |-> <<"empty">>]

\* an answer of two whitespace characters was scored
C9_Witness ==
  /\ pc = "scored"
  /\ Len(eval_out.answer) = 2
  /\ \A i \in 1..Len(eval_out.answer) : IsWhitespace(eval_out.answer[i])
  /\ eval_out.result.score = 0

\* C10: evaluate is total: for every spec and every answer it returns a triple with
\* 0 <= score <= 100 and pass = true exactly when score >= 60.
C10_ScoreRange ==
  pc = "scored" =>
    /\ eval_out.result.score \in 0..100
    /\ eval_out.result.correct \in BOOLEAN
    /\ eval_out.result.correct <=> eval_out.result.score >= 60
    /\ eval_out.result.explanation # <<>>

\* an answer with the format, both step and the seed deductions (105 points) was scored
C10_Witness ==
  /\ pc = "scored"
  /\ eval_out.result.score = 0
  /\ ~eval_out.result.correct
  /\ Len(eval_out.result.explanation) >= 4

\* the sentences the scorer judges: the two of the split, or the whole trimmed answer twice
ScoredSentences(answer) ==
  LET two == split_two_sentences(trim(answer)) IN
    IF two.some THEN two.value ELSE <<trim(answer), trim(answer)>>

\* a sentence misses a strong marker of the step or fails the step's structural expression
StepFails(step, sentence) ==
  \/ ~HasAllStrongMarkers(step, sentence)
  \/ ~simple_regex_like_match(step.check_regex, sentence)

\* a sentence contains a strong marker of the step
HasSomeStrongMarker(step, sentence) ==
  \E i \in 1..Len(step.strong_markers) : contains(sentence, step.strong_markers[i])

Indicator(b) == IF b THEN 1 ELSE 0

\* the score of section 4.5 as one expression
DeductionScore(sp, answer) ==
  LET s == ScoredSentences(answer)
      raw == 100
             - 40 * Indicator(~split_two_sentences(trim(answer)).some)
             - 25 * Indicator(StepFails(sp.step1, s[1]))
             - 25 * Indicator(StepFails(sp.step2, s[2]))
             - 15 * Indicator(~contains(trim(answer), trim_sentence_trailing_punct(sp.seed)))
             - 8 * Indicator(HasSomeStrongMarker(sp.step2, s[1]))
             - 8 * Indicator(HasSomeStrongMarker(sp.step1, s[2]))
  IN IF raw < 0 THEN 0 ELSE raw

\* C11: for a non-empty answer the score is max(0, 100 - 40*[not two sentences]
\* - 25*[sentence 1 fails step 1] - 25*[sentence 2 fails step 2] - 15*[seed absent]
\* - 8*[sentence 1 has a step-2 marker] - 8*[sentence 2 has a step-1 marker]), each deduction
\* once, and the step check does not ask for P1, P2 or P3.
C11_ScoreFormula ==
  (pc = "scored" /\ trim(eval_out.answer) # <<>>)
    => eval_out.result.score = DeductionScore(spec, eval_out.answer)

\* an answer with neither P2 nor P3 in it, whose first sentence both lacks the marker of
\* step 1 and fails its expression, lost 25 points and nothing else
C11_Witness ==
  /\ pc = "scored"
  /\ eval_out.result.score = 75
  /\ eval_out.result.explanation = <<"sentence1">>
  /\ ~contains(eval_out.answer, spec.props.p2)
  /\ ~contains(eval_out.answer, spec.props.p3)
  /\ ~HasAllStrongMarkers(spec.step1, ScoredSentences(eval_out.answer)[1])
  /\ ~simple_regex_like_match(spec.step1.check_regex, ScoredSentences(eval_out.answer)[1])

\* the first sentence contains a strong marker of step 2 that is not one of step 1
BleedsStep2Only(sp, answer) ==
  \E i \in 1..Len(sp.step2.strong_markers) :
    /\ contains(ScoredSentences(answer)[1], sp.step2.strong_markers[i])
    /\ \A j \in 1..Len(sp.step1.strong_markers) :
         sp.step1.strong_markers[j] # sp.step2.strong_markers[i]

\* the verdicts of the five other rules of section 4.5
OtherRules(sp, answer) ==
  LET s == ScoredSentences(answer) IN
    <<split_two_sentences(trim(answer)).some,
      StepFails(sp.step1, s[1]),
      StepFails(sp.step2, s[2]),
      contains(trim(answer), trim_sentence_trailing_punct(sp.seed)),
      HasSomeStrongMarker(sp.step1, s[2])>>

\* the answer with one occurrence of a strong marker of step 2 taken out
MarkerRemovals(sp, answer) ==
  UNION { {SubSeq(answer, 1, i - 1) \o SubSeq(answer, i + Len(sp.step2.strong_markers[k]), Len(answer)) :
             i \in {j \in 1..Len(answer) :
                      starts_with(slice_from(answer, j - 1), sp.step2.strong_markers[k])}} :
          k \in 1..Len(sp.step2.strong_markers) }

\* the otherwise-identical answers lacking the marker: the marker taken out, non-empty, no
\* strong marker of step 2 left in the first sentence, the same verdict of every other rule
MarkerFree(sp, answer) ==
  {x \in MarkerRemovals(sp, answer) :
     /\ trim(x) # <<>>
     /\ ~HasSomeStrongMarker(sp.step2, ScoredSentences(x)[1])
     /\ OtherRules(sp, x) = OtherRules(sp, answer)}

\* C12 as stated: the answer with the marker scores strictly lower than every
\* otherwise-identical answer without it, also at the clamp.
C12_StrictlyLower ==
  (pc = "scored" /\ trim(eval_out.answer) # <<>> /\ BleedsStep2Only(spec, eval_out.answer))
    => \A x \in MarkerFree(spec, eval_out.answer) :
         eval_out.result.score < evaluate_core_plus_core_answer(spec, x).score

\* C12 (amended): an answer whose first sentence contains a strong marker of step 2 only
\* scores 8 less than an otherwise-identical answer without it, but not less than 0; so
\* strictly lower whenever the answer without the marker scores above 0.
C12_BleedPenalty ==
  (pc = "scored" /\ trim(eval_out.answer) # <<>> /\ BleedsStep2Only(spec, eval_out.answer))
    => \A x \in MarkerFree(spec, eval_out.answer) :
         LET without == evaluate_core_plus_core_answer(spec, x).score IN
           /\ eval_out.result.score = (IF without < 8 THEN 0 ELSE without - 8)
           /\ without > 0 => eval_out.result.score < without

\* an answer with the marker in its first sentence scored 8 less than a passing
\* otherwise-identical answer without it
C12_Witness ==
  /\ pc = "scored"
  /\ BleedsStep2Only(spec, eval_out.answer)
  /\ \E x \in MarkerFree(spec, eval_out.answer) :
       /\ evaluate_core_plus_core_answer(spec, x).score >= 60
       /\ eval_out.result.score = evaluate_core_plus_core_answer(spec, x).score - 8

\* the step-by-step matcher returns what simple_regex_like_match computes
ScanAgrees ==
  (pc = "matching" /\ scan.status = "returned")
    => scan.result = simple_regex_like_match(scan.pattern, scan.text)

\* the literals of the patterns of the form ^L1.+L2.+$ among the inputs:
\* a, b, ab, bc, 因为, ，所以
ScanLiterals ==
  {<<97>>, <<98>>, <<97, 98>>, <<98, 99>>, <<22240, 20026>>, <<65292, 25152, 20197>>}

\* ^L1.+L2.+$
AnchoredPair(l1, l2) ==
  <<94>> \o l1 \o <<46, 43>> \o l2 \o <<46, 43, 36>>

\* C13: for a pattern ^L1.+L2.+$ the matcher accepts a text that starts with L1 and
\* contains L2 after it, rejects every text that does not start with L1, and rejects
\* every text in which L2 does not occur at or after the end of L1.
C13_AnchoredLiteral ==
  (pc = "matching" /\ scan.status = "returned")
    => \A l1 \in ScanLiterals, l2 \in ScanLiterals :
         scan.pattern = AnchoredPair(l1, l2)
           => (scan.result <=> (/\ starts_with(scan.text, l1)
                                /\ contains(slice_from(scan.text, Len(l1)), l2)))

\* ^因为.+，所以.+$ rejected a text in which 因为 occurs, but not at the start
C13_Witness ==
  /\ pc = "matching"
  /\ scan.status = "returned"
  /\ scan.pattern = CausePairRegex
  /\ contains(scan.text, <<22240, 20026>>)
  /\ contains(scan.text, <<65292, 25152, 20197>>)
  /\ ~starts_with(scan.text, <<22240, 20026>>)
  /\ ~scan.result

\* the chunk stands in the text at offset i
OccursAt(text, part, i) ==
  i + Len(part) <= Len(text) /\ SubSeq(text, i + 1, i + Len(part)) = part

\* the pattern ends with `.+`, before its `$` if it has one
EndsWithWildcard(pattern) ==
  ends_with(pattern, <<46, 43>>) \/ ends_with(pattern, <<46, 43, 36>>)

\* a pass of the loop over a non-empty chunk: matched at its first occurrence at or after
\* the cursor (at the cursor itself for the anchored first chunk), the cursor then just
\* past it; or the return of false when there is no such occurrence
C14_Steps ==
  (scan.status = "scanning" /\ scan.k <= Len(scan.parts) /\ scan.parts[scan.k] # <<>>)
    => LET part == scan.parts[scan.k]
           cursor == scan.search_from
           at == scan'.search_from - Len(part)
           first_chunk_anchored ==
             /\ starts_with(scan.pattern, <<94>>)
             /\ ~starts_with(scan.pattern, <<94, 46, 43>>)
             /\ \A j \in 1..(scan.k - 1) : scan.parts[j] = <<>>
       IN IF scan'.status = "scanning" THEN
            /\ scan'.k = scan.k + 1
            /\ at >= cursor
            /\ OccursAt(scan.text, part, at)
            /\ \A i \in cursor..(at - 1) : ~OccursAt(scan.text, part, i)
            /\ first_chunk_anchored => at = cursor
            /\ scan'.last_match_end = at + Len(part)
          ELSE
            /\ scan'.status = "returned"
            /\ ~scan'.result
            /\ IF first_chunk_anchored THEN ~OccursAt(scan.text, part, cursor)
               ELSE \A i \in cursor..Len(scan.text) : ~OccursAt(scan.text, part, i)

\* after the last chunk: with `$` and no trailing wildcard the match succeeds only if the
\* cursor is at the end of the text, otherwise it succeeds
C14_Return ==
  (pc = "matching" /\ scan.status = "returned" /\ scan.k > Len(scan.parts))
    => (scan.result <=>
          ((ends_with(scan.pattern, <<36>>) /\ ~EndsWithWildcard(scan.pattern))
             => scan.last_match_end = Len(scan.text)))

\* C14: the matcher is a non-backtracking forward scan: each non-empty chunk is matched at
\* its first occurrence at or after the cursor, the cursor moves just past it, chunks occur
\* in pattern order without overlapping; anchored at the end without a trailing wildcard it
\* succeeds only if the cursor after the last chunk is the end of the text, otherwise as
\* soon as all chunks are found.
C14_ForwardScan ==
  []C14_Return /\ [][C14_Steps]_vars

\* ^a.+b$ rejected a text that ends with b and has an earlier b after the a
C14_Witness ==
  /\ pc = "matching"
  /\ scan.status = "returned"
  /\ scan.pattern = <<94, 97, 46, 43, 98, 36>>
  /\ scan.text = <<97, 99, 98, 99, 98>>
  /\ scan.last_match_end = 3
  /\ ~scan.result

\* the pattern starts with `.+`, after its `^` if it has one
StartsWithWildcard(pattern) ==
  starts_with(pattern, <<46, 43>>) \/ starts_with(pattern, <<94, 46, 43>>)

\* C15: `.+` means one or more characters: a text is accepted only if at least one
\* character stands between the matched occurrences of two consecutive chunks, before the
\* first chunk when the pattern starts with `.+`, and after the last chunk when it ends
\* with `.+`.
C15_OneOrMore ==
  (pc = "matching" /\ scan.status = "returned" /\ scan.result)
    => /\ \A i \in 2..Len(scan.found) : scan.found[i].at > scan.found[i - 1].end
       /\ (StartsWithWildcard(scan.pattern) /\ scan.found # <<>>) => scan.found[1].at > 0
       /\ (EndsWithWildcard(scan.pattern) /\ scan.found # <<>>)
            => scan.found[Len(scan.found)].end < Len(scan.text)
       /\ scan.found = <<>> => scan.text # <<>>

\* the two renderings of the spec's templates
Rendering1(sp) == render_template_ab(sp.step1.pattern_tpl, sp.props.p1, sp.props.p2)

Rendering2(sp) == render_template_ab(sp.step2.pattern_tpl, sp.props.p2, sp.props.p3)

\* the number of sentence-terminal marks at the end of the text
RECURSIVE TrailingMarks(_)
TrailingMarks(t) ==
  IF t = <<>> \/ t[Len(t)] \notin TerminalPunct THEN 0
  ELSE 1 + TrailingMarks(SubSeq(t, 1, Len(t) - 1))

\* the text without surrounding whitespace and without one trailing sentence-terminal
\* mark, if it has one
StripOneMark(t) ==
  LET u == trim(t) IN
    trim(IF TrailingMarks(u) = 0 THEN u ELSE SubSeq(u, 1, Len(u) - 1))

\* the text without surrounding whitespace, without its run of trailing
\* sentence-terminal marks, and without the whitespace that leaves at the end
StripAllMarks(t) ==
  trim(SubSeq(trim(t), 1, Len(trim(t)) - TrailingMarks(trim(t))))

HasWhitespace(t) ==
  \E i \in 1..Len(t) : IsWhitespace(t[i])

IsDigits(s) ==
  s # <<>> /\ \A i \in 1..Len(s) : s[i] \in 48..57

\* the integer a string of digits denotes
RECURSIVE DecimalValue(_)
DecimalValue(s) ==
  IF s = <<>> THEN 0 ELSE 10 * DecimalValue(SubSeq(s, 1, Len(s) - 1)) + (s[Len(s)] - 48)

\* the level the difficulty string stands for: by N for "hsk<N>", 2 if there is no N
LevelOfDifficulty(d) ==
  LET norm == to_lowercase(trim(d))
      suffix == slice_from(norm, 3)
  IN IF starts_with(norm, <<104, 115, 107>>) /\ IsDigits(suffix) THEN
       IF DecimalValue(suffix) <= 2 THEN 1
       ELSE IF DecimalValue(suffix) <= 4 THEN 2
       ELSE 3
     ELSE 2

\* C17: for "hsk<N>", case-insensitive, the target level is 1 for N in 0..2, 2 for N in
\* 3..4 and 3 for every N >= 5, also above 255; a string with no such integer gives 2.
C17_LevelOfDifficulty ==
  (pc = "attempting" /\ frame.tries = 0)
    => frame.target_level_max = LevelOfDifficulty(difficulty)

\* the scene schemas admitted at level 1
Level1Schemas ==
  {"reason_outcome_followup", "condition_outcome_followup", "time_event_outcome",
   "fact1_fact2_inference", "action_goal_effect"}

\* the scene schemas of the chains the level admits
AdmittedSchemas(level) ==
  {CHAIN_PATTERNS[i].scene_schema : i \in 1..Len(CHAIN_PATTERNS)}
    \ (IF level <= 1
         THEN {CHAIN_PATTERNS[i].scene_schema : i \in 1..Len(CHAIN_PATTERNS)} \ Level1Schemas
         ELSE IF level = 2 THEN {"condition_expected_surprise"} ELSE {})

\* a returned spec has an admitted scene schema
C18_Returned ==
  pc = "succeeded" => spec.scene_schema \in AdmittedSchemas(TargetLevel)

\* an iteration rejected at the chain gate only consumed a try, and there is a chain the
\* level does not admit; an iteration that went past the gate drew an admitted chain
C18_Steps ==
  /\ (pc = "attempting" /\ pc' = "attempting" /\ frame'.last_reject = "chain")
       => /\ frame'.tries = frame.tries + 1
          /\ spec' = NoSpec
          /\ \E i \in 1..Len(CHAIN_PATTERNS) :
               CHAIN_PATTERNS[i].scene_schema \notin AdmittedSchemas(frame.target_level_max)
  /\ (pc = "attempting" /\ pc' = "succeeded")
       => spec'.scene_schema \in AdmittedSchemas(frame.target_level_max)

\* C18: a spec returned for level 1 has its scene schema in the fixed set of five, one
\* returned for level 2 has a scene schema other than condition_expected_surprise, level 3
\* admits every chain; a drawn chain that fails the gate rejects the whole iteration.
C18_ChainGate ==
  []C18_Returned /\ [][C18_Steps]_vars

\* an iteration at level 2 was rejected at the chain gate
C18_Witness ==
  /\ pc = "attempting"
  /\ frame.target_level_max = 2
  /\ frame.last_reject = "chain"
  /\ frame.tries = 1

\* the characters that normalise to a sentence boundary
BoundaryMarks == {FullStop, 33, 65281, 63, 65311}

\* C19: for every spec the sampler can produce, the reference answer splits into exactly
\* two non-empty sentences: it holds one sentence boundary, that of the renderer.
C19_ReferenceSplits ==
  pc = "rendered" =>
    LET two == split_two_sentences(reference_answer_zh.text) IN
      /\ two.some
      /\ two.value[1] # <<>> /\ two.value[2] # <<>>
      /\ Cardinality({i \in 1..Len(reference_answer_zh.text) :
                        reference_answer_zh.text[i] \in BoundaryMarks}) = 1

\* the reference of a level-3 spec whose first template ends with {A} was rendered
C19_Witness ==
  /\ pc = "rendered"
  /\ TargetLevel = 3
  /\ ends_with(spec.step1.pattern_tpl, <<123, 65, 125>>)
  /\ split_two_sentences(reference_answer_zh.text).some

\* the step is the catalog pattern, under the relation
StepIsPattern(step, relation, p) ==
  /\ step.relation = relation
  /\ step.pattern_id = p.id
  /\ step.pattern_tpl = p.tpl
  /\ step.markers_zh = p.markers_zh
  /\ step.kind = p.kind
  /\ step.level = p.level
  /\ step.check_regex = p.check_regex
  /\ step.strong_markers = p.strong_markers
  /\ step.weak_markers = p.weak_markers

\* C20: every returned spec is self-consistent: scene_schema is the schema of the drawn
\* chain, the steps' relations are the chain's, each step's pattern is from the catalog
\* group of its relation, P1/P2/P3 are the slots of one scene of that schema, seed is P1.
C20_SelfConsistent ==
  pc = "succeeded" =>
    /\ \E ci \in 1..Len(CHAIN_PATTERNS) :
         LET chain == CHAIN_PATTERNS[ci] IN
           /\ spec.chain_id = chain.id
           /\ spec.scene_schema = chain.scene_schema
           /\ spec.chain_step1_relation = chain.step1
           /\ spec.chain_step2_relation = chain.step2
           /\ \E i \in 1..Len(patterns_for_relation(chain.step1)) :
                StepIsPattern(spec.step1, chain.step1, patterns_for_relation(chain.step1)[i])
           /\ \E i \in 1..Len(patterns_for_relation(chain.step2)) :
                StepIsPattern(spec.step2, chain.step2, patterns_for_relation(chain.step2)[i])
    /\ \E si \in 1..Len(SCENES) :
         /\ SCENES[si].schema = spec.scene_schema
         /\ SCENES[si].id = spec.scene_id
         /\ SCENES[si].slots = <<spec.props.p1, spec.props.p2, spec.props.p3>>
    /\ spec.seed = spec.props.p1

\* a spec was returned whose two steps have different relations and whose scene is not
\* the first of the catalog
C20_Witness ==
  /\ pc = "succeeded"
  /\ spec.step1.relation # spec.step2.relation
  /\ spec.scene_id # SCENES[1].id
  /\ spec.seed = spec.props.p1

\* the tag is among the notes of the explanation
Noted(tag) ==
  \E i \in 1..Len(eval_out.result.explanation) : eval_out.result.explanation[i] = tag

\* C21: a non-empty answer that does not split into exactly two sentences is still
\* scored: 40 is deducted once, and the step-1, step-2, seed and both bleed-through checks
\* are applied to the entire trimmed answer as sentence 1 and as sentence 2.
C21_Fallback ==
  (pc = "scored" /\ trim(eval_out.answer) # <<>>
     /\ ~split_two_sentences(trim(eval_out.answer)).some)
    => LET whole == trim(eval_out.answer)
           notes == eval_out.result.explanation
           raw == 60 - 25 * Indicator(StepFails(spec.step1, whole))
                     - 25 * Indicator(StepFails(spec.step2, whole))
                     - 15 * Indicator(~contains(whole, trim_sentence_trailing_punct(spec.seed)))
                     - 8 * Indicator(HasSomeStrongMarker(spec.step2, whole))
                     - 8 * Indicator(HasSomeStrongMarker(spec.step1, whole))
       IN /\ notes[1] = "format"
          /\ \A i \in 2..Len(notes) : notes[i] # "format"
          /\ Noted("sentence1") <=> StepFails(spec.step1, whole)
          /\ Noted("sentence2") <=> StepFails(spec.step2, whole)
          /\ Noted("seed") <=> ~contains(whole, trim_sentence_trailing_punct(spec.seed))
          /\ Noted("bleed1") <=> HasSomeStrongMarker(spec.step2, whole)
          /\ Noted("bleed2") <=> HasSomeStrongMarker(spec.step1, whole)
          /\ eval_out.result.score = (IF raw < 0 THEN 0 ELSE raw)

\* a one-sentence answer that satisfies both steps lost 40 for the format and 8 for the
\* marker of step 2 that it, as sentence 1, contains
C21_Witness ==
  /\ pc = "scored"
  /\ ~split_two_sentences(trim(eval_out.answer)).some
  /\ eval_out.result.explanation = <<"format", "bleed1">>
  /\ eval_out.result.score = 52

\* C22: when the pattern has no literal chunk ("", ".+", "^.+$", "^$", ...) the matcher
\* returns true if and only if the text is non-empty.
C22_NoLiteral ==
  (pc = "matching" /\ scan.status = "returned"
     /\ scan.pattern \in NoLiteralPatterns(MaxWildcards))
    => (scan.result <=> scan.text # <<>>)

\* ^$ accepted a non-empty text
C22_Witness ==
  /\ pc = "matching"
  /\ scan.status = "returned"
  /\ scan.pattern = <<94, 36>>
  /\ scan.text # <<>>
  /\ scan.result

\* the values the cursor took: 0, then the end of each matched chunk
CursorValues ==
  <<0>> \o [i \in 1..Len(scan.found) |-> scan.found[i].end]

\* C23: the matcher is total: for every pattern and text, the empty pattern, a pattern of
\* anchors only and the empty text included, it returns true or false; during the scan
\* the cursor never decreases and never exceeds the length of the text.
C23_Total ==
  pc = "matching" =>
    /\ scan.status \in {"called", "scanning", "returned"}
    /\ scan.status = "returned" => scan.result \in BOOLEAN
    /\ scan.status # "called"
         => /\ scan.k \in 1..(Len(scan.parts) + 1)
            /\ scan.search_from = CursorValues[Len(CursorValues)]
            /\ \A i \in 1..Len(CursorValues) : CursorValues[i] \in 0..Len(scan.text)
            /\ \A i \in 2..Len(CursorValues) : CursorValues[i] >= CursorValues[i - 1]
            /\ \A i \in 1..Len(scan.found) : scan.found[i].at >= CursorValues[i]

\* the pattern ^ alone returned false on the empty text
C23_Witness ==
  /\ pc = "matching"
  /\ scan.status = "returned"
  /\ scan.pattern = <<94>>
  /\ scan.text = <<>>
  /\ ~scan.result


\* the ensure_present calls for this challenge have all returned, there was at least
\* one, and no task inserted the challenge by insert_challenge itself
Ensured(c) ==
  /\ \E t \in Tasks : tasks[t].op = "ensure_present" /\ tasks[t].c = c
  /\ \A t \in Tasks : tasks[t].c = c => tasks[t].op = "ensure_present"
  /\ \A t \in Tasks : tasks[t].op = "ensure_present" /\ tasks[t].c = c
                        => tasks[t].pc = "returned"

\* how often the id is listed under the difficulty
Listed(map, c) ==
  IF c.difficulty \in DOMAIN map THEN Count(map[c.difficulty], c.id) ELSE 0

\* by_diff as AppState::new() left it
SeedByDiff == [d \in {"hsk3", "hsk2"} |-> IF d = "hsk3" THEN <<"c3001">> ELSE <<"c3002">>]

\* C25: ensure_present is idempotent: after any number of ensure_present calls for the
\* same challenge, sequential or interleaved, by_id holds the challenge and by_diff lists
\* its id under its difficulty once if it was absent before the first call (and as often
\* as before if it was present).
C25_Idempotent ==
  pc = "serving" =>
    \A c \in {NewChallenge, seed_challenges[1]} :
      Ensured(c) =>
        /\ c.id \in DOMAIN by_id
        /\ by_id[c.id] = c
        /\ Listed(by_diff, c) = IF Listed(SeedByDiff, c) = 0 THEN 1 ELSE Listed(SeedByDiff, c)

\* some call has not returned and no task can take a step
Deadlocked ==
  /\ \E t \in Tasks : tasks[t].pc # "returned"
  /\ \A t \in Tasks : tasks[t].pc = "returned" \/ ~granted(t)

\* the task waits for by_id while it holds a guard of by_diff, against the order of
\* insert_challenge
WaitsAgainstOrder(t) ==
  /\ request(t).lock = "by_id"
  /\ ~granted(t)
  /\ "by_diff" \in held(t)

\* C30: the challenge store is free of deadlock: concurrent tasks running
\* choose_challenge, insert_challenge, ensure_present and get_challenge never reach a
\* state in which calls are pending and none can proceed, and no task requests a lock
\* while holding another against the order of insert_challenge (by_id, then by_diff).
C30_DeadlockFree ==
  pc = "serving" =>
    /\ ~Deadlocked
    /\ \A t \in Tasks : ~WaitsAgainstOrder(t)


\* the answer scored is non-empty and does not split into exactly two sentences
ScoredUnsplit ==
  /\ pc = "scored"
  /\ trim(eval_out.answer) # <<>>
  /\ ~split_two_sentences(trim(eval_out.answer)).some

\* C26: for every spec the sampler returns, a non-empty answer that does not split into
\* exactly two sentences never passes: besides the format deduction either the step-2
\* check fails or the bleed-through of step 2 into sentence 1 is found, so the score is
\* at most 52.
C26_UnsplitFails ==
  ScoredUnsplit =>
    /\ ~eval_out.result.correct
    /\ eval_out.result.score <= 52
    /\ Noted("format")
    /\ Noted("sentence2") \/ Noted("bleed1")

\* a one-sentence answer that meets both steps of a sampled spec and names the seed was
\* scored 52
C26_Witness ==
  /\ ScoredUnsplit
  /\ eval_out.result.score = 52
  /\ eval_out.result.explanation = <<"format", "bleed1">>


\* the answer scored splits into exactly two sentences
ScoredSplit ==
  /\ pc = "scored"
  /\ split_two_sentences(trim(eval_out.answer)).some

\* C27: an answer that splits into exactly two sentences which meet the step-1 and the
\* step-2 marker and structural checks passes with a score of at least 69, whatever
\* propositions it contains; an answer whose two sentences both fail their step check
\* does not pass: its score is at most 50.
C27_StepChecksDecide ==
  (pc = "scored" /\ trim(eval_out.answer) # <<>>) =>
    LET s == ScoredSentences(eval_out.answer) IN
      /\ (ScoredSplit /\ ~StepFails(spec.step1, s[1]) /\ ~StepFails(spec.step2, s[2]))
           => (eval_out.result.correct /\ eval_out.result.score >= 69)
      /\ (StepFails(spec.step1, s[1]) /\ StepFails(spec.step2, s[2]))
           => (~eval_out.result.correct /\ eval_out.result.score <= 50)

\* two sentences that meet both steps, on other propositions than the scene's and with
\* both bleed-throughs, were scored 69
C27_Witness ==
  /\ ScoredSplit
  /\ eval_out.answer = other_props_answer(spec)
  /\ ~contains(eval_out.answer, spec.props.p2)
  /\ eval_out.result.correct
  /\ eval_out.result.score = 69


\* C28: for every spec the sampler returns, the only deductions applied to the canonical
\* reference answer are the two bleed-through penalties of 8: its score is 100, 92 or 84,
\* and it is below 100 exactly when a strong marker of one step occurs in the other
\* step's rendered sentence; the format, step-1, step-2 and seed deductions never apply.
C28_ReferenceDeductions ==
  ScoredReference =>
    LET bleeds1 == HasSomeStrongMarker(spec.step2, reference_sentence1(spec))
        bleeds2 == HasSomeStrongMarker(spec.step1, reference_sentence2(spec))
    IN /\ ~Noted("format") /\ ~Noted("sentence1") /\ ~Noted("sentence2") /\ ~Noted("seed")
       /\ ~Noted("empty")
       /\ Noted("bleed1") <=> bleeds1
       /\ Noted("bleed2") <=> bleeds2
       /\ eval_out.result.score = 100 - 8 * Indicator(bleeds1) - 8 * Indicator(bleeds2)
       /\ eval_out.result.score \in {100, 92, 84}
       /\ eval_out.result.score < 100 <=> (bleeds1 \/ bleeds2)

\* the reference of a spec chaining a step 1 of the form because ..., so ... with a
\* step 2 of the form ..., so ... was scored 84: the marker they share bleeds both ways
C28_Witness ==
  /\ ScoredReference
  /\ spec.step1.check_regex = CausePairRegex
  /\ spec.step2.strong_markers = <<<<25152, 20197>>>>
  /\ eval_out.result.explanation = <<"bleed1", "bleed2">>
  /\ eval_out.result.score = 84


\* some patterns of the chain's two relations at the level and some scene of its schema
\* pass the scene gate and the banned-seed check together
FeasibleChain(chain, level) ==
  LET step1_pool == pattern_pool(chain.step1, level)
      step2_pool == pattern_pool(chain.step2, level)
      scene_pool == scene_pool_of(chain.scene_schema)
  IN \E i1 \in 1..Len(step1_pool), i2 \in 1..Len(step2_pool), si \in 1..Len(scene_pool) :
       LET slots == scene_pool[si].slots IN
         /\ scene_matches_difficulty(slots[1], slots[2], slots[3], level)
         /\ ~contains_any(slots[1], banned_tokens(step1_pool[i1], step2_pool[i2]))

\* the chains the gate admits at the level
GatedChains(level) ==
  {ci \in 1..Len(CHAIN_PATTERNS) : chain_matches_difficulty(CHAIN_PATTERNS[ci], level)}

\* C29: at each target level 1, 2 and 3 the chain gate admits some chain, and for every
\* chain it admits the catalog holds a step-1 pattern and a step-2 pattern of at most that
\* level and a scene of the chain's schema that together pass the scene gate and the
\* banned-seed check; so whenever the sampler is in its loop with tries remaining, an
\* iteration that returns a spec is possible.
C29_Feasible ==
  (pc = "attempting" /\ loop_has_next(frame.tries, max_tries)) =>
    /\ frame.target_level_max \in 1..3
    /\ GatedChains(frame.target_level_max) # {}
    /\ \A ci \in GatedChains(frame.target_level_max) :
         FeasibleChain(CHAIN_PATTERNS[ci], frame.target_level_max)
    /\ ENABLED Succeed

\* at level 2 a draw was rejected for a banned token in its seed and a try remains
C29_Witness ==
  /\ pc = "attempting"
  /\ frame.target_level_max = 2
  /\ frame.last_reject = "banned_seed"
  /\ loop_has_next(frame.tries, max_tries)

====
